---------------------------- MODULE Spec2Model ----------------------------
(***************************************************************************)
(* A model of the cleansheets ECMAScript front end: the lexer's whitespace *)
(* and comment handling, the token lookahead buffer (parser.Scanner), the  *)
(* parse context and the recursive-descent parser.                         *)
(*                                                                         *)
(* The parser is modelled at token level: the input of a parse is the      *)
(* sequence of tokens lexer.Lex would return for the source text, a        *)
(* location is the number of tokens lexed so far.  A Go panic is modelled  *)
(* by the field err of the parser state: once err is set every later      *)
(* operation leaves the state alone, which is what unwinding does.         *)
(***************************************************************************)
EXTENDS Integers, Sequences, FiniteSets, TLC

VARIABLES src, mode, p, out, pc

vars == <<src, mode, p, out, pc>>

(***************************************************************************)
(* Tokens (lexer.Token).  A token type is written as its source text; the  *)
(* types without one text are "ident", "number", "string", "regexp",       *)
(* "template" and "none" (end of input).                                    *)
(* A literal is the sequence of the pieces of its text (a Go string is a    *)
(* sequence of runes): <<>> is the empty string.                           *)
(***************************************************************************)
Token(typ, lit, nl) == [type |-> typ, lit |-> lit, nl |-> nl]

\* a punctuator: no literal
P(typ) == Token(typ, <<>>, FALSE)

\* a keyword: the literal is the keyword's text
K(typ) == Token(typ, <<typ>>, FALSE)

\* an identifier
I(name) == Token("ident", <<name>>, FALSE)

\* a number literal
N(raw) == Token("number", <<raw>>, FALSE)

\* a string literal: the literal holds the quotes
S(body) == Token("string", <<"'", body, "'">>, FALSE)

\* the same token preceded by a line terminator
NL(t) == [t EXCEPT !.nl = TRUE]

TokenNone == Token("none", <<>>, FALSE)

\* Token.StringConstant: the literal without its first and last rune
StringConstant(t) == SubSeq(t.lit, 2, Len(t.lit) - 1)

(***************************************************************************)
(* Parse context (parser/context.go, parser/keyword.go)                    *)
(***************************************************************************)
reservedNever == {"as", "async", "from", "get", "meta", "of", "set", "target"}

reservedAsync == {"await"}

reservedGenerator == {"yield"}

reservedStrict == {"implements", "interface", "let", "package", "private",
                   "protected", "public", "static"}

reservedAlways == {"break", "case", "catch", "class", "const", "continue",
                   "debugger", "default", "delete", "do", "else", "enum",
                   "export", "extends", "false", "finally", "for", "function",
                   "if", "import", "in", "instanceof", "new", "null", "return",
                   "super", "switch", "this", "throw", "true", "try", "typeof",
                   "var", "void", "while", "with"}

reservedWords == reservedNever \cup reservedAsync \cup reservedGenerator
                   \cup reservedStrict \cup reservedAlways

parseContext == [strictMode |-> FALSE, async |-> FALSE, generator |-> FALSE]

\* keywordToIdentifier without the reservedGenerator case
keywordToIdentifierNoGenerator(ctx, token, force) ==
  IF token.type \notin reservedWords THEN token
  ELSE IF ~force /\ token.type \in reservedAlways THEN token
  ELSE IF ~force /\ token.type \in reservedAsync /\ ctx.async THEN token
  ELSE IF ~force /\ token.type \in reservedStrict /\ ctx.strictMode THEN token
  ELSE Token("ident", token.lit, FALSE)

\* the result drops the NewLine flag: a fresh Token{Type, Literal} is built
keywordToIdentifier(ctx, token, force) ==
  IF token.type \notin reservedWords THEN token
  ELSE IF ~force /\ token.type \in reservedAlways THEN token
  ELSE IF ~force /\ token.type \in reservedAsync /\ ctx.async THEN token
  ELSE IF ~force /\ token.type \in reservedGenerator /\ ctx.generator THEN token
  ELSE IF ~force /\ token.type \in reservedStrict /\ ctx.strictMode THEN token
  ELSE Token("ident", token.lit, FALSE)

(***************************************************************************)
(* Token lookahead buffer (parser/scanner.go) in front of the lexer.       *)
(*   toks  the tokens the lexer returns for the source, in order           *)
(*   pos   how many of them the lexer has returned                         *)
(*   lastToken   Lexer.lastToken                                           *)
(*   last, loc   Scanner.last and Scanner.loc                              *)
(*   relexed     a history of the ReScan calls: the length of Scanner.last  *)
(*               and Lexer.lastToken at each call                          *)
(***************************************************************************)
NewParser(toks) ==
  [toks |-> toks, pos |-> 0, lastToken |-> TokenNone, last |-> <<>>,
   loc |-> <<>>, ctx |-> parseContext, err |-> "none", relexed |-> <<>>]

\* a panic: the first one wins, later operations are skipped
Fail(q, kind) == IF q.err = "none" THEN [q EXCEPT !.err = kind] ELSE q

\* Lexer.Location
LexerLocation(q) == q.pos

\* Lexer.Lex at token level: the next token, TokenNone at end of input
Lex(q) ==
  IF q.pos < Len(q.toks)
    THEN [p |-> [q EXCEPT !.pos = q.pos + 1, !.lastToken = q.toks[q.pos + 1]],
          t |-> q.toks[q.pos + 1]]
    ELSE [p |-> [q EXCEPT !.lastToken = TokenNone], t |-> TokenNone]

Location(q) == IF Len(q.loc) > 0 THEN q.loc[1] ELSE LexerLocation(q)

RECURSIVE Fill(_, _)
\* the loop of PeekAt
Fill(q, i) ==
  IF Len(q.last) > i THEN q
  ELSE LET l == Lex(q)
       IN Fill([l.p EXCEPT !.loc = Append(q.loc, Location(q)),
                           !.last = Append(q.last, l.t)], i)

PeekAt(q, i) ==
  IF q.err # "none" THEN [p |-> q, t |-> TokenNone]
  ELSE LET f == Fill(q, i) IN [p |-> f, t |-> f.last[i + 1]]

PeekLen(q) == Len(q.last)

\* Scan that returns the front of the buffer and leaves it there
ScanWithoutPop(q) ==
  IF q.err # "none" THEN [p |-> q, t |-> TokenNone]
  ELSE IF Len(q.last) > 0 THEN [p |-> q, t |-> q.last[1]]
  ELSE Lex(q)

Scan(q) ==
  IF q.err # "none" THEN [p |-> q, t |-> TokenNone]
  ELSE IF Len(q.last) > 0
    THEN [p |-> [q EXCEPT !.last = Tail(q.last), !.loc = Tail(q.loc)],
          t |-> q.last[1]]
    ELSE Lex(q)

SyntaxError(q) == Fail(q, "syntax")

ScanExpect(q, typ) ==
  LET s == Scan(q)
  IN IF s.t.type # typ THEN [p |-> SyntaxError(s.p), t |-> s.t] ELSE s

\* the tokens consumed so far: lexed and no longer buffered (an end-of-input
\* token in the buffer was not taken from the source)
Consumed(q) ==
  q.pos - Cardinality({i \in 1..Len(q.last) : q.last[i].type # "none"})

\* Lexer.ReLex at token level, for a source text whose tokens are separated
\* by single white space runes: the pattern runs to the first later `/`
\* outside a character class `[` .. `]`, swallowing the tokens before it; a
\* `/=` ends it as well and leaves its `=` to be lexed next.
RECURSIVE consumeRegex(_, _, _)
consumeRegex(q, i, inClass) ==
  IF i > Len(q.toks) THEN [p |-> SyntaxError(q), t |-> TokenNone]
  ELSE LET c == q.toks[i].type
           re == Token("regexp", <<"/">>, FALSE)
       IN IF ~inClass /\ c = "/"
            THEN [p |-> [q EXCEPT !.pos = i, !.lastToken = re], t |-> re]
          ELSE IF ~inClass /\ c = "/="
            THEN [p |-> [q EXCEPT !.pos = i - 1, !.lastToken = re,
                                  !.toks = [q.toks EXCEPT ![i] = P("=")]],
                  t |-> re]
          ELSE IF ~inClass /\ c = "[" THEN consumeRegex(q, i + 1, TRUE)
          ELSE IF inClass /\ c = "]" THEN consumeRegex(q, i + 1, FALSE)
          ELSE consumeRegex(q, i + 1, inClass)

ReLex(q) == consumeRegex(q, q.pos + 1, FALSE)

\* Scanner.ReScan: a plain string panic when tokens are buffered
ReScan(q) ==
  LET called == [q EXCEPT !.relexed = Append(@, [queue |-> Len(q.last),
                                                 pos |-> q.pos,
                                                 lastToken |-> q.lastToken])]
  IN IF q.err # "none" THEN [p |-> q, t |-> TokenNone]
     ELSE IF Len(q.last) > 0 THEN [p |-> Fail(called, "panic"), t |-> TokenNone]
     ELSE ReLex(called)

(***************************************************************************)
(* Parser helpers (parser.go)                                              *)
(***************************************************************************)
expectIdent(q, t) ==
  LET k == keywordToIdentifier(q.ctx, t, FALSE)
  IN [p |-> IF k.type # "ident" THEN SyntaxError(q) ELSE q, lit |-> k.lit]

forceIdent(q, t) ==
  LET k == keywordToIdentifier(q.ctx, t, TRUE)
  IN [p |-> IF k.type # "ident" THEN SyntaxError(q) ELSE q, lit |-> k.lit]

scanIdent(q) == LET s == Scan(q) IN expectIdent(s.p, s.t)

forceScanIdent(q) == LET s == Scan(q) IN forceIdent(s.p, s.t)

expectSemicolonMissingEof(q) ==
  LET k == PeekAt(q, 0)
  IN IF k.t.type # ";" /\ (k.t.nl \/ k.t.type = "}") THEN k.p
     ELSE ScanExpect(k.p, ";").p

expectSemicolon(q) ==
  LET k == PeekAt(q, 0)
  IN IF k.t.type # ";" /\ (k.t.nl \/ k.t.type = "}" \/ k.t.type = "none")
       THEN k.p
       ELSE ScanExpect(k.p, ";").p

(***************************************************************************)
(* AST nodes (package ast): records with a type field; Nil is a nil Node   *)
(* or nil pointer, <<>> an empty string or nil slice.                      *)
(***************************************************************************)
Nil == [type |-> "nil"]

R(q, n) == [p |-> q, n |-> n]

Identifier(name) == [type |-> "Identifier", Name |-> name]

\* the zero BindingPattern and the three ways it is populated
BindingPattern == [Identifier |-> <<>>, ObjectPattern |-> Nil, ArrayPattern |-> Nil]

BindingElement == [Value |-> BindingPattern, Init |-> Nil]

BindingProperty == [PropertyName |-> <<>>, Value |-> BindingPattern, Init |-> Nil]

FormalParameters == [Parameters |-> <<>>, RestParameter |-> <<>>]

FunctionExpression ==
  [type |-> "FunctionExpression", ID |-> <<>>, Params |-> FormalParameters,
   Body |-> Nil, Generator |-> FALSE, Async |-> FALSE, Arrow |-> FALSE]

Property ==
  [Key |-> Nil, Computed |-> FALSE, Value |-> Nil, DestructureInit |-> Nil,
   Method |-> FALSE, Kind |-> "InitProperty"]

TemporalTypes == {"TemporalEmptyArrowHead", "TemporalArrayRestElement",
                  "TemporalObjectRestElement", "TemporalFloatingRestElement"}

(***************************************************************************)
(* exprOrder (expression.go)                                               *)
(***************************************************************************)
exprOrderComma == 0
exprOrderAssign == 1
exprOrderConditional == 2
exprOrderLogicalOr == 3
exprOrderLogicalAnd == 4
exprOrderBitwiseOr == 5
exprOrderBitwiseXor == 6
exprOrderBitwiseAnd == 7
exprOrderEqualityExpr == 8
exprOrderRelationalExpr == 9
exprOrderShiftExpr == 10
exprOrderAdditiveExpr == 11
exprOrderMultiplicativeExpr == 12
exprOrderExponentExpr == 13
exprOrderUnaryExpr == 14
exprOrderLHSExpr == 15
exprOrderCallExpr == 16
exprOrderMemberExpr == 17
exprOrderPrimaryExpr == 18

\* The binary branches of the operator loop, in the order of the loop.  A
\* branch is reached when order is below the level checked right before it
\* (`if order >= level { break }`); next is the order its right operand is
\* parsed at.
binaryBranch(below, op, next) == [below |-> below, op |-> op, next |-> next]

binaryOps ==
  [t \in {"**", "*", "/", "%", "+", "-", "<<", ">>", ">>>", "<", ">", "<=",
          ">=", "instanceof", "in", "==", "!=", "===", "!==", "&", "^", "|",
          "&&", "||", "??"} |->
    CASE t = "**" -> binaryBranch(exprOrderUnaryExpr, "BinaryExponentOp", exprOrderUnaryExpr)
      [] t = "*" -> binaryBranch(exprOrderExponentExpr, "BinaryMultOp", exprOrderExponentExpr)
      [] t = "/" -> binaryBranch(exprOrderExponentExpr, "BinaryDivOp", exprOrderExponentExpr)
      [] t = "%" -> binaryBranch(exprOrderExponentExpr, "BinaryModOp", exprOrderExponentExpr)
      [] t = "+" -> binaryBranch(exprOrderMultiplicativeExpr, "BinaryAddOp", exprOrderMultiplicativeExpr)
      [] t = "-" -> binaryBranch(exprOrderMultiplicativeExpr, "BinarySubOp", exprOrderMultiplicativeExpr)
      [] t = "<<" -> binaryBranch(exprOrderAdditiveExpr, "BinaryLShiftOp", exprOrderAdditiveExpr)
      [] t = ">>" -> binaryBranch(exprOrderAdditiveExpr, "BinaryRShiftOp", exprOrderAdditiveExpr)
      [] t = ">>>" -> binaryBranch(exprOrderAdditiveExpr, "BinaryUnsignedRShiftOp", exprOrderAdditiveExpr)
      [] t = "<" -> binaryBranch(exprOrderShiftExpr, "BinaryLessThanOp", exprOrderShiftExpr)
      [] t = ">" -> binaryBranch(exprOrderShiftExpr, "BinaryGreaterThanOp", exprOrderShiftExpr)
      [] t = "<=" -> binaryBranch(exprOrderShiftExpr, "BinaryLessThanEqualOp", exprOrderShiftExpr)
      [] t = ">=" -> binaryBranch(exprOrderShiftExpr, "BinaryGreaterThanEqualOp", exprOrderShiftExpr)
      [] t = "instanceof" -> binaryBranch(exprOrderShiftExpr, "BinaryInstanceOfOp", exprOrderShiftExpr)
      [] t = "in" -> binaryBranch(exprOrderShiftExpr, "BinaryInOp", exprOrderShiftExpr)
      [] t = "==" -> binaryBranch(exprOrderRelationalExpr, "BinaryEqualOp", exprOrderRelationalExpr)
      [] t = "!=" -> binaryBranch(exprOrderRelationalExpr, "BinaryNotEqualOp", exprOrderRelationalExpr)
      [] t = "===" -> binaryBranch(exprOrderRelationalExpr, "BinaryStrictEqualOp", exprOrderRelationalExpr)
      [] t = "!==" -> binaryBranch(exprOrderRelationalExpr, "BinaryStrictNotEqualOp", exprOrderRelationalExpr)
      [] t = "&" -> binaryBranch(exprOrderEqualityExpr, "BinaryBitAndOp", exprOrderEqualityExpr)
      [] t = "^" -> binaryBranch(exprOrderBitwiseAnd, "BinaryBitXorOp", exprOrderBitwiseAnd)
      [] t = "|" -> binaryBranch(exprOrderBitwiseXor, "BinaryBitXorOp", exprOrderBitwiseXor)
      [] t = "&&" -> binaryBranch(exprOrderBitwiseOr, "BinaryLogicalAndOp", exprOrderBitwiseOr)
      [] t = "||" -> binaryBranch(exprOrderLogicalAnd, "BinaryLogicalOrOp", exprOrderLogicalAnd)
      [] t = "??" -> binaryBranch(exprOrderLogicalAnd, "BinaryCoalesceOp", exprOrderLogicalAnd)]

\* the assignment branches: all reached below exprOrderConditional, the right
\* operand parsed at exprOrderAssign
assignOps ==
  [t \in {"=", "*=", "/=", "%=", "+=", "-=", "<<=", ">>=", ">>>=", "&=", "^=",
          "|=", "**=", "&&=", "||=", "??="} |->
    CASE t = "=" -> "AssignmentOp"
      [] t = "*=" -> "AssignmentMultOp"
      [] t = "/=" -> "AssignmentDivOp"
      [] t = "%=" -> "AssignmentModOp"
      [] t = "+=" -> "AssignmentAddOp"
      [] t = "-=" -> "AssignmentSubOp"
      [] t = "<<=" -> "AssignmentLShiftOp"
      [] t = ">>=" -> "AssignmentRShiftOp"
      [] t = ">>>=" -> "AssignmentUnsignedRShiftOp"
      [] t = "&=" -> "AssignmentBitAndOp"
      [] t = "^=" -> "AssignmentBitXorOp"
      [] t = "|=" -> "AssignmentBitOrOp"
      [] t = "**=" -> "AssignmentExponentOp"
      [] t = "&&=" -> "AssignmentLogicalAndOp"
      [] t = "||=" -> "AssignmentLogicalOr"
      [] t = "??=" -> "AssignmentCoalesceOp"]

\* the prefix operators of the primary switch
unaryOps ==
  [t \in {"delete", "void", "typeof", "+", "-", "~", "!"} |->
    CASE t = "delete" -> "UnaryDeleteOp"
      [] t = "void" -> "UnaryVoidOp"
      [] t = "typeof" -> "UnaryTypeOfOp"
      [] t = "+" -> "UnaryPlusOp"
      [] t = "-" -> "UnaryMinusOp"
      [] t = "~" -> "UnaryBitNotOp"
      [] t = "!" -> "UnaryNotOp"]

(***************************************************************************)
(* Expressions (expression.go).  Every parse function takes the parser     *)
(* state and returns the new state with its result; once err is set the    *)
(* remaining calls of the Go function are never executed, so they leave    *)
(* the state alone here.                                                   *)
(*                                                                         *)
(* The functions of the parser call each other by name:                    *)
(* Call("parseExpression", <<p, order, flags>>) is the Go call             *)
(* p.parseExpression(order, flags).  Call is defined after the last of     *)
(* them.                                                                   *)
(***************************************************************************)
RECURSIVE Call(_, _)

\* wrap: a prefix or postfix operator is invalid above its precedence
wrap(q, n, order, precedence) ==
  R(IF order > precedence THEN SyntaxError(q) ELSE q, n)

\* convarg's conversion of one array element
convArrayElem(q, e) ==
  IF e.type = "nil" THEN R(q, BindingElement)
  ELSE IF e.type = "Identifier"
    THEN R(q, [BindingElement EXCEPT !.Value.Identifier = e.Name])
  ELSE IF e.type = "AssignmentExpression"
    THEN IF e.Left.type # "Identifier" THEN R(SyntaxError(q), BindingElement)
         ELSE R(q, [Value |-> [BindingPattern EXCEPT !.Identifier = e.Left.Name],
                    Init |-> e.Right])
  ELSE R(SyntaxError(q), BindingElement)

convArray(q, elems, i, pat) ==
  IF q.err # "none" \/ i > Len(elems) THEN R(q, pat)
  ELSE IF elems[i].type = "TemporalArrayRestElement"
    THEN R(q, [pat EXCEPT !.RestElement =
                 [Identifier |-> elems[i].Identifier,
                  ObjectPattern |-> elems[i].ObjectPattern,
                  ArrayPattern |-> elems[i].ArrayPattern]])
  ELSE LET c == Call("convArrayElem", <<q, elems[i]>>)
       IN Call("convArray", <<c.p, elems, i + 1,
                    [pat EXCEPT !.Elements = Append(pat.Elements, c.n)]>>)

\* convarg's conversion of one object property
convProperty(q, prop) ==
  LET b0 == IF prop.Key.type = "Identifier"
              THEN [BindingProperty EXCEPT !.PropertyName = prop.Key.Name]
              ELSE BindingProperty
      v == prop.Value
      c == IF v.type = "Identifier"
             THEN R(q, [b0 EXCEPT !.Value.Identifier = v.Name])
           ELSE IF v.type = "AssignmentExpression"
             THEN IF v.Left.type # "Identifier" THEN R(SyntaxError(q), b0)
                  ELSE R(q, [b0 EXCEPT !.Value.Identifier = v.Left.Name,
                                       !.Init = v.Right])
           ELSE IF v.type = "nil" THEN R(q, b0)
           ELSE R(SyntaxError(q), b0)
  IN IF prop.DestructureInit.type # "nil"
       THEN R(c.p, [c.n EXCEPT !.Init = prop.DestructureInit])
       ELSE c

convObject(q, props, i, pat) ==
  IF q.err # "none" \/ i > Len(props) THEN R(q, pat)
  ELSE IF props[i].Key.type = "TemporalObjectRestElement"
    THEN R(q, [pat EXCEPT !.RestElement = props[i].Key.Identifier])
  ELSE LET c == Call("convProperty", <<q, props[i]>>)
       IN Call("convObject", <<c.p, props, i + 1,
                     [pat EXCEPT !.Properties = Append(pat.Properties, c.n)]>>)

ArrayBindingPattern ==
  [type |-> "ArrayBindingPattern", Elements |-> <<>>, RestElement |-> BindingPattern]

ObjectBindingPattern ==
  [type |-> "ObjectBindingPattern", Properties |-> <<>>, RestElement |-> <<>>]

convarg(q, n, params) ==
  LET add(b) == [params EXCEPT !.Parameters = Append(params.Parameters, b)]
  IN IF q.err # "none" THEN R(q, params)
     ELSE IF n.type = "Identifier"
       THEN R(q, add([BindingElement EXCEPT !.Value.Identifier = n.Name]))
     ELSE IF n.type = "AssignmentExpression"
       THEN IF n.Left.type # "Identifier" THEN R(SyntaxError(q), params)
            ELSE R(q, add([Value |-> [BindingPattern EXCEPT !.Identifier = n.Left.Name],
                           Init |-> n.Right]))
     ELSE IF n.type = "ArrayExpression"
       THEN LET c == Call("convArray", <<q, n.Elements, 1, ArrayBindingPattern>>)
            IN R(c.p, add([BindingElement EXCEPT !.Value.ArrayPattern = c.n]))
     ELSE IF n.type = "ObjectExpression"
       THEN LET c == Call("convObject", <<q, n.Properties, 1, ObjectBindingPattern>>)
            IN R(c.p, add([BindingElement EXCEPT !.Value.ObjectPattern = c.n]))
     ELSE IF n.type = "TemporalFloatingRestElement"
       THEN R(q, [params EXCEPT !.RestParameter = n.Identifier])
     ELSE R(SyntaxError(q), params)

convargs(q, es, i, params) ==
  IF i > Len(es) THEN R(q, params)
  ELSE LET c == Call("convarg", <<q, es[i], params>>) IN Call("convargs", <<c.p, es, i + 1, c.n>>)

convertExprToArrowParams(q, inner) ==
  IF q.err # "none" \/ inner.type = "TemporalEmptyArrowHead"
    THEN R(q, FormalParameters)
  ELSE IF inner.type = "SequenceExpression"
    THEN Call("convargs", <<q, inner.Expressions, 1, FormalParameters>>)
  ELSE Call("convarg", <<q, inner, FormalParameters>>)

convertExprToCallParams(inner) ==
  IF inner.type = "SequenceExpression" THEN inner.Expressions ELSE <<inner>>

\* "yes", "no", or "panic" when the method is called on a nil Node

arrowFunction(q, params, async) ==
  LET b == Call("parseBlockOrShorthand", <<q>>)
  IN R(b.p, [FunctionExpression EXCEPT !.Params = params, !.Body = b.n,
                                       !.Arrow = TRUE, !.Async = async])

\* `(` already consumed: a parenthesized expression or an arrow head
exprParen(q) ==
  LET inner == Call("parseExpression", <<q, exprOrderComma, {"MaybeArrow"}>>)
      c == Call("ScanExpect", <<inner.p, ")">>)
      k == Call("PeekAt", <<c.p, 0>>)
  IN IF k.t.type = "=>"
       THEN LET a == Call("ScanExpect", <<k.p, "=>">>)
                ps == Call("convertExprToArrowParams", <<a.p, inner.n>>)
            IN Call("arrowFunction", <<ps.p, ps.n, FALSE>>)
     ELSE IF k.p.err # "none" THEN R(k.p, Nil)
     ELSE LET tmp == IF inner.n.type = "TemporalEmptyArrowHead" THEN "yes"
                     ELSE Call("ContainsTemporalNodes", <<inner.n>>)
          IN R(IF tmp = "yes" THEN SyntaxError(k.p)
               ELSE IF tmp = "panic" THEN Fail(k.p, "panic")
               ELSE k.p,
               [type |-> "ParenthesizedExpression", Expression |-> inner.n])

\* the identifier `async` was consumed; ret is TRUE where the Go code returns
\* straight out of parseExpression
exprAsync(q, t) ==
  LET k == Call("PeekAt", <<q, 0>>)
      ident == Call("keywordToIdentifier", <<k.p.ctx, k.t, TRUE>>)
  IN IF k.t.type = "function"
       THEN LET f == Call("parseFunctionExpressionTail", <<Call("Scan", <<k.p>>).p, FALSE>>)
            IN [p |-> f.p, n |-> f.n, ret |-> FALSE]
     ELSE IF ident.type = "ident"
       THEN LET a == Call("ScanExpect", <<Call("Scan", <<k.p>>).p, "=>">>)
                b == Call("parseBlockOrShorthand", <<a.p>>)
            IN [p |-> b.p,
                n |-> [FunctionExpression EXCEPT
                         !.Params.Parameters =
                            <<[BindingElement EXCEPT !.Value.Identifier = ident.lit]>>,
                         !.Body = b.n, !.Arrow = TRUE, !.Async = TRUE],
                ret |-> TRUE]
     ELSE IF k.t.type = "("
       THEN LET inner == Call("parseExpression", <<Call("Scan", <<k.p>>).p, exprOrderComma, {"MaybeArrow"}>>)
                c == Call("ScanExpect", <<inner.p, ")">>)
                k2 == Call("PeekAt", <<c.p, 0>>)
            IN IF k2.t.type = "=>"
                 THEN LET a == Call("ScanExpect", <<k2.p, "=>">>)
                          ps == Call("convertExprToArrowParams", <<a.p, inner.n>>)
                          m == Call("arrowFunction", <<ps.p, ps.n, TRUE>>)
                      IN [p |-> m.p, n |-> m.n, ret |-> FALSE]
                 ELSE [p |-> k2.p,
                       n |-> [type |-> "CallExpression", Callee |-> Identifier(t.lit),
                              Arguments |-> convertExprToCallParams(inner.n),
                              Optional |-> FALSE],
                       ret |-> FALSE]
     ELSE [p |-> k.p, n |-> Identifier(t.lit), ret |-> FALSE]

\* the switch on the first token of an expression
exprPrimary(q, t, order, flags) ==
  LET done(r) == [p |-> r.p, n |-> r.n, ret |-> FALSE]
      y == t.type
  IN IF q.err # "none" THEN done(R(q, Nil))
     ELSE IF y \in {"++", "--"}
       THEN LET a == Call("parseExpression", <<q, exprOrderLHSExpr, flags>>)
            IN done(wrap(a.p, [type |-> "UpdateExpression",
                               Operator |-> IF y = "++" THEN "UpdatePreIncrementOp"
                                            ELSE "UpdatePreDecrementOp",
                               Argument |-> a.n], order, exprOrderUnaryExpr))
     ELSE IF y \in DOMAIN unaryOps
       THEN LET a == Call("parseExpression", <<q, exprOrderUnaryExpr, flags>>)
            IN done(wrap(a.p, [type |-> "UnaryExpression", Operator |-> unaryOps[y],
                               Argument |-> a.n], order, exprOrderUnaryExpr))
     ELSE IF y = "this" THEN done(R(q, [type |-> "ThisExpression"]))
     ELSE IF y = "ident"
       THEN IF t.lit = <<"async">> THEN Call("exprAsync", <<q, t>>)
            ELSE done(R(q, Identifier(t.lit)))
     ELSE IF y = "null" THEN done(R(q, [type |-> "NullLiteral"]))
     ELSE IF y \in {"true", "false"}
       THEN done(R(q, [type |-> "BooleanLiteral", Value |-> (y = "true"), Raw |-> t.lit]))
     ELSE IF y = "number" THEN done(R(q, [type |-> "NumberLiteral", Raw |-> t.lit]))
     ELSE IF y = "string"
       THEN done(R(q, [type |-> "StringLiteral", Value |-> StringConstant(t),
                       Raw |-> t.lit]))
     ELSE IF y = "[" THEN done(Call("parseArrayTail", <<q, flags \cap {"MaybeArrow"}>>))
     ELSE IF y = "{" THEN done(Call("parseObjectTail", <<q, flags \cap {"MaybeArrow"}>>))
     ELSE IF y = "function" THEN done(Call("parseFunctionExpressionTail", <<q, FALSE>>))
     ELSE IF y = "new"
       THEN LET ctor == Call("parseExpression", <<q, exprOrderMemberExpr, flags>>)
                k == Call("PeekAt", <<ctor.p, 0>>)
                a == IF k.t.type = "(" THEN Call("parseArguments", <<k.p>>) ELSE R(k.p, <<>>)
            IN done(R(a.p, [type |-> "NewExpression", Callee |-> ctor.n,
                            Arguments |-> a.n]))
     ELSE IF y = "class" THEN done(R(Fail(q, "panic"), Nil))
     ELSE IF y = "regexp" THEN done(R(q, [type |-> "RegExpLiteral", Raw |-> t.lit]))
     ELSE IF y = "template" THEN done(R(Fail(q, "panic"), Nil))
     ELSE IF y = "(" THEN done(Call("exprParen", <<q>>))
     ELSE done(R(SyntaxError(q), Nil))

\* the `for` loop of parseExpression, n the expression built so far
exprLoop(q, n, order, flags) ==
  IF q.err # "none" THEN R(q, n)
  ELSE
    LET k == Call("PeekAt", <<q, 0>>)
        y == k.t.type
    IN IF y = "."
         THEN LET i == Call("forceScanIdent", <<Call("ScanExpect", <<k.p, ".">>).p>>)
              IN Call("exprLoop", <<i.p, [type |-> "MemberExpression", Object |-> n,
                                Computed |-> FALSE, Property |-> Identifier(i.lit),
                                Optional |-> FALSE], order, flags>>)
       ELSE IF y = "["
         THEN LET e == Call("parseExpression", <<Call("ScanExpect", <<k.p, "[">>).p, exprOrderAssign, {}>>)
                  c == Call("ScanExpect", <<e.p, "]">>)
              IN Call("exprLoop", <<c.p, [type |-> "MemberExpression", Object |-> n,
                                Computed |-> TRUE, Property |-> e.n,
                                Optional |-> FALSE], order, flags>>)
       ELSE IF order >= exprOrderMemberExpr THEN R(k.p, n)
       ELSE IF y = "("
         THEN LET a == Call("parseArguments", <<k.p>>)
              IN Call("exprLoop", <<a.p, [type |-> "CallExpression", Callee |-> n,
                                Arguments |-> a.n, Optional |-> FALSE], order, flags>>)
       ELSE IF order >= exprOrderCallExpr THEN R(k.p, n)
       ELSE IF y = "?."
         THEN LET d == Call("ScanExpect", <<k.p, ".">>)
                  k2 == Call("PeekAt", <<d.p, 0>>)
              IN IF k2.t.type = "["
                   THEN LET e == Call("parseExpression", <<Call("ScanExpect", <<k2.p, "[">>).p,
                                                 exprOrderAssign, {}>>)
                            c == Call("ScanExpect", <<e.p, "]">>)
                        IN Call("exprLoop", <<c.p, [type |-> "MemberExpression", Object |-> n,
                                          Computed |-> TRUE, Property |-> e.n,
                                          Optional |-> TRUE], order, flags>>)
                 ELSE IF k2.t.type = "("
                   THEN LET a == Call("parseArguments", <<k2.p>>)
                        IN Call("exprLoop", <<a.p, [type |-> "CallExpression", Callee |-> n,
                                          Arguments |-> a.n, Optional |-> TRUE],
                                    order, flags>>)
                 ELSE LET i == Call("forceScanIdent", <<k2.p>>)
                      IN Call("exprLoop", <<i.p, [type |-> "MemberExpression", Object |-> n,
                                        Computed |-> FALSE,
                                        Property |-> Identifier(i.lit),
                                        Optional |-> TRUE], order, flags>>)
       ELSE IF order >= exprOrderLHSExpr THEN R(k.p, n)
       ELSE IF y \in {"++", "--"}
         THEN LET w == wrap(Call("ScanExpect", <<k.p, y>>).p,
                            [type |-> "UpdateExpression",
                             Operator |-> IF y = "++" THEN "UpdatePostIncrementOp"
                                          ELSE "UpdatePostDecrementOp",
                             Argument |-> n], order, exprOrderUnaryExpr)
              IN Call("exprLoop", <<w.p, w.n, order, flags>>)
       ELSE IF /\ y \in DOMAIN binaryOps
               /\ order < binaryOps[y].below
               /\ (y = "in" => "DisallowIn" \notin flags)
         THEN LET r == Call("parseExpression", <<Call("ScanExpect", <<k.p, y>>).p, binaryOps[y].next, flags>>)
              IN Call("exprLoop", <<r.p, [type |-> "BinaryExpression",
                                Operator |-> binaryOps[y].op,
                                Left |-> n, Right |-> r.n], order, flags>>)
       ELSE IF y = "?" /\ order < exprOrderLogicalOr
         THEN LET a == Call("parseExpression", <<Call("ScanExpect", <<k.p, "?">>).p, exprOrderAssign, {}>>)
                  b == Call("parseExpression", <<Call("ScanExpect", <<a.p, ":">>).p, exprOrderAssign, {}>>)
              IN Call("exprLoop", <<b.p, [type |-> "ConditionalExpression", Test |-> n,
                                Consequent |-> a.n, Alternate |-> b.n], order, flags>>)
       ELSE IF y \in DOMAIN assignOps /\ order < exprOrderConditional
         THEN LET r == Call("parseExpression", <<Call("ScanExpect", <<k.p, y>>).p, exprOrderAssign, flags>>)
              IN Call("exprLoop", <<r.p, [type |-> "AssignmentExpression",
                                Operator |-> assignOps[y],
                                Left |-> n, Right |-> r.n], order, flags>>)
       ELSE IF y = "," /\ order < exprOrderAssign
         THEN LET r == Call("parseExpression", <<Call("ScanExpect", <<k.p, ",">>).p, exprOrderAssign, flags>>)
                  es == IF n.type = "SequenceExpression" THEN n.Expressions ELSE <<n>>
              IN Call("exprLoop", <<r.p, [type |-> "SequenceExpression",
                                Expressions |-> Append(es, r.n)], order, flags>>)
       ELSE R(k.p, n)

parseExpression(q, order, flags) ==
  IF q.err # "none" THEN R(q, Nil)
  ELSE
    LET maybe == "MaybeArrow" \in flags
        k == IF maybe THEN Call("PeekAt", <<q, 0>>) ELSE [p |-> q, t |-> TokenNone]
    IN IF maybe /\ k.t.type = ")"
         THEN R(k.p, [type |-> "TemporalEmptyArrowHead"])
       ELSE IF maybe /\ k.t.type = "..."
         THEN LET i == Call("forceScanIdent", <<Call("ScanExpect", <<k.p, "...">>).p>>)
              IN R(i.p, [type |-> "TemporalFloatingRestElement", Identifier |-> i.lit])
       ELSE
         LET s == Call("Scan", <<k.p>>)
             t == Call("keywordToIdentifier", <<s.p.ctx, s.t, FALSE>>)
             re == IF t.type \in {"/", "/="} THEN Call("ReScan", <<s.p>>) ELSE [p |-> s.p, t |-> t]
             pr == Call("exprPrimary", <<re.p, re.t, order, flags>>)
             isId == pr.p.err = "none" /\ pr.n.type = "Identifier"
             k2 == IF isId THEN Call("PeekAt", <<pr.p, 0>>) ELSE [p |-> pr.p, t |-> TokenNone]
         IN IF pr.ret THEN R(pr.p, pr.n)
            ELSE IF isId /\ k2.t.type = "=>"
              THEN LET a == Call("ScanExpect", <<k2.p, "=>">>)
                       k3 == Call("PeekAt", <<a.p, 0>>)
                       b == IF k3.t.type = "{" THEN Call("parseBlock", <<k3.p>>)
                            ELSE Call("parseExpression", <<k3.p, exprOrderConditional, {}>>)
                   IN R(b.p, [FunctionExpression EXCEPT
                                !.Params.Parameters =
                                   <<[BindingElement EXCEPT !.Value.Identifier = pr.n.Name]>>,
                                !.Body = b.n, !.Arrow = TRUE])
            ELSE IF order >= exprOrderPrimaryExpr THEN R(k2.p, pr.n)
            ELSE Call("exprLoop", <<k2.p, pr.n, order, flags>>)

parseArrayBindingPattern(q) == Call("parseArrayBindingPatternTail", <<Call("ScanExpect", <<q, "[">>).p>>)

parseObjectBindingPattern(q) == Call("parseObjectBindingPatternTail", <<Call("ScanExpect", <<q, "{">>).p>>)

parseParameters(q) == Call("parseParametersTail", <<Call("ScanExpect", <<q, "(">>).p>>)

\* A loop whose iteration ended at state q1 without leaving the loop, having
\* started at state q0: with no token consumed the next iteration starts
\* from the same tokens and the loop never ends.
Iterate(q0, q1) ==
  IF q1.err = "none" /\ Consumed(q1) = Consumed(q0) THEN Fail(q1, "hang") ELSE q1

ArrayExpression(elems) == [type |-> "ArrayExpression", Elements |-> elems]

arrayElisions(q, elems) ==
  LET k == Call("PeekAt", <<q, 0>>)
  IN IF k.t.type = ","
       THEN Call("arrayElisions", <<Call("ScanExpect", <<k.p, ",">>).p, Append(elems, Nil)>>)
       ELSE R(k.p, elems)

\* the rest element of an array in a possible arrow head, `...` consumed
arrayRest(q) ==
  LET k == Call("PeekAt", <<q, 0>>)
      rest == [type |-> "TemporalArrayRestElement", Identifier |-> <<>>,
               ObjectPattern |-> Nil, ArrayPattern |-> Nil]
  IN IF k.t.type = "]" THEN R(SyntaxError(k.p), rest)
     ELSE IF k.t.type = "["
       THEN LET a == Call("parseArrayBindingPattern", <<k.p>>)
            IN R(a.p, [rest EXCEPT !.ArrayPattern = a.n])
     ELSE IF k.t.type = "{"
       THEN LET o == Call("parseObjectBindingPattern", <<k.p>>)
            IN R(o.p, [rest EXCEPT !.ObjectPattern = o.n])
     ELSE IF k.t.type = "ident"
       THEN LET i == Call("forceScanIdent", <<k.p>>) IN R(i.p, [rest EXCEPT !.Identifier = i.lit])
     ELSE R(SyntaxError(k.p), rest)

arrayTailLoop(q, elems, flags) ==
  IF q.err # "none" THEN R(q, ArrayExpression(elems))
  ELSE
    LET c == Call("arrayElisions", <<q, elems>>)
        k == Call("PeekAt", <<c.p, 0>>)
        close(r, es) == R(Call("ScanExpect", <<r, "]">>).p, ArrayExpression(es))
    IN IF k.t.type = "]" THEN close(k.p, c.n)
       ELSE IF "MaybeArrow" \in flags /\ k.t.type = "..."
         THEN LET r == Call("arrayRest", <<Call("ScanExpect", <<k.p, "...">>).p>>)
              IN close(r.p, Append(c.n, r.n))
       ELSE
         LET e == Call("parseExpression", <<k.p, exprOrderAssign, flags>>)
             k1 == Call("PeekAt", <<e.p, 0>>)
             q1 == IF k1.t.type = "," THEN Call("ScanExpect", <<k1.p, ",">>).p ELSE k1.p
             k2 == Call("PeekAt", <<q1, 0>>)
         IN IF k2.t.type = "]" THEN close(k2.p, Append(c.n, e.n))
            ELSE Call("arrayTailLoop", <<Iterate(q, k2.p), Append(c.n, e.n), flags>>)

parseArrayTail(q, flags) == Call("arrayTailLoop", <<q, <<>>, flags>>)

parseFunctionExpressionTail(q, async) ==
  LET s1 == Call("Scan", <<q>>)
      t1 == Call("keywordToIdentifier", <<s1.p.ctx, s1.t, FALSE>>)
      named == t1.type = "ident"
      s2 == IF named THEN Call("Scan", <<s1.p>>) ELSE [p |-> s1.p, t |-> t1]
      generator == s2.t.type = "*"
      s3 == IF generator THEN Call("Scan", <<s2.p>>) ELSE s2
      q3 == IF s3.t.type # "(" THEN SyntaxError(s3.p) ELSE s3.p
      params == Call("parseParametersTail", <<q3>>)
      wasgen == params.p.ctx.generator
      body == Call("parseBlock", <<[params.p EXCEPT !.ctx.generator = TRUE]>>)
  IN R([body.p EXCEPT !.ctx.generator = wasgen],
       [FunctionExpression EXCEPT !.ID = IF named THEN t1.lit ELSE <<>>,
                                  !.Params = params.n, !.Body = body.n,
                                  !.Async = async, !.Generator = generator])

argumentsLoop(q, n) ==
  IF q.err # "none" THEN R(q, n)
  ELSE
    LET k == Call("PeekAt", <<q, 0>>)
        spread == k.t.type = "..."
        m == Call("parseExpression", <<IF spread THEN Call("Scan", <<k.p>>).p ELSE k.p, exprOrderAssign, {}>>)
        n1 == Append(n, IF spread THEN [type |-> "SpreadElement", Argument |-> m.n]
                        ELSE m.n)
        k1 == Call("PeekAt", <<m.p, 0>>)
        q1 == IF k1.t.type = "," THEN Call("ScanExpect", <<k1.p, ",">>).p ELSE k1.p
        k2 == Call("PeekAt", <<q1, 0>>)
    IN IF k2.t.type = ")" THEN R(Call("ScanExpect", <<k2.p, ")">>).p, n1)
       ELSE Call("argumentsLoop", <<Iterate(q, k2.p), n1>>)

parseArguments(q) ==
  LET o == Call("ScanExpect", <<q, "(">>)
      k == Call("PeekAt", <<o.p, 0>>)
  IN IF k.t.type = ")" THEN R(Call("ScanExpect", <<k.p, ")">>).p, <<>>)
     ELSE Call("argumentsLoop", <<k.p, <<>>>>)

ObjectExpression(props) == [type |-> "ObjectExpression", Properties |-> props]

atEndOfPropertyKey(t, flags) ==
  \/ "MaybeArrow" \in flags /\ t.type = "="
  \/ t.type \in {":", ",", "}", "("}

\* parseRest of parseObjectTail, `...` consumed
objectRest(q) ==
  LET k == Call("PeekAt", <<q, 0>>)
      rest == [type |-> "TemporalObjectRestElement", Identifier |-> <<>>]
  IN IF k.t.type = "ident"
       THEN LET i == Call("forceScanIdent", <<k.p>>) IN R(i.p, [rest EXCEPT !.Identifier = i.lit])
       ELSE R(SyntaxError(k.p), rest)

\* the specifiers before a property key; t is the first token of the
\* property, already consumed.  rest is TRUE for the `...` of an arrow head.
objectSpecifiers(q, t, flags) ==
  LET k == Call("PeekAt", <<q, 0>>)
      none == [p |-> k.p, t |-> t, kind |-> "InitProperty", async |-> FALSE,
               generator |-> FALSE, rest |-> FALSE]
      next(r) == [r EXCEPT !.p = Call("Scan", <<r.p>>).p, !.t = Call("Scan", <<r.p>>).t]
  IN IF t.type = "[" THEN [none EXCEPT !.p = q]
     ELSE IF atEndOfPropertyKey(k.t, flags) THEN none
     ELSE IF t.type = "get" THEN next([none EXCEPT !.kind = "GetProperty"])
     ELSE IF t.type = "set" THEN next([none EXCEPT !.kind = "SetProperty"])
     ELSE IF t.type = "async"
       THEN IF k.t.type = "*"
              THEN next([none EXCEPT !.p = Call("Scan", <<k.p>>).p, !.async = TRUE,
                                     !.generator = TRUE])
              ELSE next([none EXCEPT !.async = TRUE])
     ELSE IF t.type = "*" THEN next([none EXCEPT !.generator = TRUE])
     ELSE IF t.type = "..." /\ "MaybeArrow" \in flags THEN [none EXCEPT !.rest = TRUE]
     ELSE [none EXCEPT !.p = SyntaxError(k.p)]

\* the property key, from its first token
objectKey(q, t0, flags) ==
  LET t == Call("keywordToIdentifier", <<q.ctx, t0, TRUE>>)
      prop(key, computed) == [Property EXCEPT !.Key = key, !.Computed = computed]
  IN IF q.err # "none" THEN R(q, Property)
     ELSE IF t.type = "ident" THEN R(q, prop(Identifier(t.lit), FALSE))
     ELSE IF t.type = "string"
       THEN R(q, prop([type |-> "StringLiteral", Value |-> StringConstant(t),
                       Raw |-> t.lit], FALSE))
     ELSE IF t.type = "number"
       THEN R(q, prop([type |-> "NumberLiteral", Raw |-> t.lit], FALSE))
     ELSE IF t.type = "["
       THEN LET e == Call("parseExpression", <<q, exprOrderComma, flags>>)
            IN R(Call("ScanExpect", <<e.p, "]">>).p, prop(e.n, TRUE))
     ELSE R(SyntaxError(q), Property)

\* what follows the key: accessor, value, default, method or shorthand
objectValue(q, prop, sp, flags) ==
  LET k == Call("PeekAt", <<q, 0>>)
      special == sp.async \/ sp.generator
  IN IF q.err # "none" THEN R(q, prop)
     ELSE IF sp.kind \in {"GetProperty", "SetProperty"}
       THEN LET ps == Call("parseParameters", <<k.p>>)
                b == Call("parseBlock", <<ps.p>>)
            IN R(b.p, [prop EXCEPT !.Kind = sp.kind,
                         !.Value = [FunctionExpression EXCEPT !.Params = ps.n,
                                                              !.Body = b.n]])
     ELSE IF k.t.type = ":"
       THEN LET c == Call("ScanExpect", <<IF special THEN SyntaxError(k.p) ELSE k.p, ":">>)
                v == Call("parseExpression", <<c.p, exprOrderAssign, flags>>)
            IN R(v.p, [prop EXCEPT !.Value = v.n])
     ELSE IF "MaybeArrow" \in flags /\ k.t.type = "="
       THEN LET v == Call("parseExpression", <<Call("ScanExpect", <<k.p, "=">>).p, exprOrderAssign, flags>>)
            IN R(v.p, [prop EXCEPT !.DestructureInit = v.n])
     ELSE IF k.t.type = "("
       THEN LET ps == Call("parseParameters", <<[k.p EXCEPT !.ctx.async = sp.async,
                                                  !.ctx.generator = sp.generator]>>)
                b == Call("parseBlock", <<ps.p>>)
            IN R([b.p EXCEPT !.ctx = k.p.ctx],
                 [prop EXCEPT !.Method = TRUE,
                    !.Value = [FunctionExpression EXCEPT
                                 !.Params = ps.n, !.Body = b.n,
                                 !.Async = sp.async, !.Generator = sp.generator]])
     ELSE IF k.t.type \in {",", "}"}
       THEN R(IF prop.Computed \/ special THEN SyntaxError(k.p) ELSE k.p, prop)
     ELSE R(SyntaxError(k.p), prop)

objectTailLoop(q, props, flags) ==
  IF q.err # "none" THEN R(q, ObjectExpression(props))
  ELSE
    LET k == Call("PeekAt", <<q, 0>>)
        s == Call("Scan", <<k.p>>)
        sp == Call("objectSpecifiers", <<s.p, s.t, flags>>)
        key == Call("objectKey", <<sp.p, sp.t, flags>>)
        v == Call("objectValue", <<key.p, key.n, sp, flags>>)
        k1 == Call("PeekAt", <<v.p, 0>>)
    IN IF k.t.type = "}" THEN R(Call("ScanExpect", <<k.p, "}">>).p, ObjectExpression(props))
       ELSE IF sp.rest
         THEN LET r == Call("objectRest", <<sp.p>>)
              IN R(Call("ScanExpect", <<r.p, "}">>).p,
                   ObjectExpression(Append(props, [Property EXCEPT !.Key = r.n])))
       ELSE IF k1.t.type = "}"
         THEN R(Call("ScanExpect", <<k1.p, "}">>).p, ObjectExpression(Append(props, v.n)))
       ELSE Call("objectTailLoop", <<Call("ScanExpect", <<k1.p, ",">>).p, Append(props, v.n), flags>>)

parseObjectTail(q, flags) == Call("objectTailLoop", <<q, <<>>, flags>>)

\* `= init` after a binding, shared by parameters and binding patterns
bindingDefault(q) ==
  LET k == Call("PeekAt", <<q, 0>>)
  IN IF k.t.type = "="
       THEN Call("parseExpression", <<Call("ScanExpect", <<k.p, "=">>).p, exprOrderAssign, {}>>)
       ELSE R(k.p, Nil)

\* a binding target from its first token t, already consumed; ok is FALSE
\* when t starts no binding
bindingValue(q, t) ==
  IF t.type = "ident"
    THEN [p |-> q, n |-> [BindingPattern EXCEPT !.Identifier = t.lit], ok |-> TRUE]
  ELSE IF t.type = "["
    THEN LET a == Call("parseArrayBindingPatternTail", <<q>>)
         IN [p |-> a.p, n |-> [BindingPattern EXCEPT !.ArrayPattern = a.n], ok |-> TRUE]
  ELSE IF t.type = "{"
    THEN LET o == Call("parseObjectBindingPatternTail", <<q>>)
         IN [p |-> o.p, n |-> [BindingPattern EXCEPT !.ObjectPattern = o.n], ok |-> TRUE]
  ELSE [p |-> q, n |-> BindingPattern, ok |-> FALSE]

parametersLoop(q, n) ==
  IF q.err # "none" THEN R(q, n)
  ELSE
    LET s == Call("Scan", <<q>>)
        t == Call("keywordToIdentifier", <<s.p.ctx, s.t, FALSE>>)
        v == Call("bindingValue", <<s.p, t>>)
        d == Call("bindingDefault", <<v.p>>)
        n1 == [n EXCEPT !.Parameters = Append(n.Parameters, [Value |-> v.n, Init |-> d.n])]
        e == Call("Scan", <<d.p>>)
    IN IF t.type = ")" THEN R(s.p, n)
       ELSE IF t.type = "..."
         THEN LET i == Call("scanIdent", <<s.p>>)
              IN R(Call("ScanExpect", <<i.p, ")">>).p, [n EXCEPT !.RestParameter = i.lit])
       ELSE IF ~v.ok THEN R(SyntaxError(Call("Scan", <<s.p>>).p), n)
       ELSE IF e.t.type = "," THEN Call("parametersLoop", <<e.p, n1>>)
       ELSE IF e.t.type = ")" THEN R(e.p, n1)
       ELSE R(SyntaxError(e.p), n1)

parseParametersTail(q) == Call("parametersLoop", <<q, FormalParameters>>)

\* the rest element of an array binding pattern, `...` consumed
arrayBindingRest(q) ==
  LET k == Call("PeekAt", <<q, 0>>)
      t == Call("keywordToIdentifier", <<k.p.ctx, k.t, FALSE>>)
  IN IF t.type = "ident"
       THEN LET i == Call("scanIdent", <<k.p>>)
            IN R(i.p, [BindingPattern EXCEPT !.Identifier = i.lit])
     ELSE IF t.type = "["
       THEN LET a == Call("parseArrayBindingPattern", <<k.p>>)
            IN R(a.p, [BindingPattern EXCEPT !.ArrayPattern = a.n])
     ELSE IF t.type = "{"
       THEN LET o == Call("parseObjectBindingPattern", <<k.p>>)
            IN R(o.p, [BindingPattern EXCEPT !.ObjectPattern = o.n])
     ELSE R(SyntaxError(Call("Scan", <<k.p>>).p), BindingPattern)

arrayBindingLoop(q, n) ==
  IF q.err # "none" THEN R(q, n)
  ELSE
    LET s == Call("Scan", <<q>>)
        t == Call("keywordToIdentifier", <<s.p.ctx, s.t, FALSE>>)
        v == Call("bindingValue", <<s.p, t>>)
        d == Call("bindingDefault", <<v.p>>)
        n1 == [n EXCEPT !.Elements = Append(n.Elements, [Value |-> v.n, Init |-> d.n])]
        e == Call("Scan", <<d.p>>)
    IN IF t.type = ","
         THEN Call("arrayBindingLoop", <<s.p, [n EXCEPT !.Elements = Append(n.Elements, BindingElement)]>>)
       ELSE IF t.type = "]" THEN R(s.p, n)
       ELSE IF t.type = "..."
         THEN LET r == Call("arrayBindingRest", <<s.p>>)
              IN R(Call("ScanExpect", <<r.p, "]">>).p, [n EXCEPT !.RestElement = r.n])
       ELSE IF ~v.ok THEN R(SyntaxError(Call("Scan", <<s.p>>).p), n)
       ELSE IF e.t.type = "," THEN Call("arrayBindingLoop", <<e.p, n1>>)
       ELSE IF e.t.type = "]" THEN R(e.p, n1)
       ELSE R(SyntaxError(e.p), n1)

parseArrayBindingPatternTail(q) == Call("arrayBindingLoop", <<q, ArrayBindingPattern>>)

\* `: target` after a property name
objectBindingTarget(q) ==
  LET k == Call("PeekAt", <<q, 0>>)
      s == Call("Scan", <<Call("ScanExpect", <<k.p, ":">>).p>>)
      t == Call("keywordToIdentifier", <<s.p.ctx, s.t, FALSE>>)
      v == Call("bindingValue", <<s.p, t>>)
  IN IF k.t.type # ":" THEN R(k.p, BindingPattern)
     ELSE IF ~v.ok THEN R(SyntaxError(Call("Scan", <<s.p>>).p), BindingPattern)
     ELSE R(v.p, v.n)

objectBindingLoop(q, n) ==
  IF q.err # "none" THEN R(q, n)
  ELSE
    LET s == Call("Scan", <<q>>)
        t == Call("keywordToIdentifier", <<s.p.ctx, s.t, FALSE>>)
        v == Call("objectBindingTarget", <<s.p>>)
        d == Call("bindingDefault", <<v.p>>)
        n1 == [n EXCEPT !.Properties =
                 Append(n.Properties,
                        [PropertyName |-> t.lit, Value |-> v.n, Init |-> d.n])]
        e == Call("Scan", <<d.p>>)
    IN IF t.type = "..."
         THEN LET i == Call("scanIdent", <<s.p>>)
              IN R(Call("ScanExpect", <<i.p, "}">>).p, [n EXCEPT !.RestElement = i.lit])
       ELSE IF t.type = "}" THEN R(s.p, n)
       ELSE IF t.type # "ident" THEN R(SyntaxError(s.p), n)
       ELSE IF e.t.type = "," THEN Call("objectBindingLoop", <<e.p, n1>>)
       ELSE IF e.t.type = "}" THEN R(e.p, n1)
       ELSE R(SyntaxError(e.p), n1)

parseObjectBindingPatternTail(q) == Call("objectBindingLoop", <<q, ObjectBindingPattern>>)

(***************************************************************************)
(* Statements and declarations (statement.go, declaration.go).  A          *)
(* statement function that returns nil returns Nil here, with no error.    *)
(***************************************************************************)

parseExpressionStatement(q) ==
  LET e == Call("parseExpression", <<q, exprOrderComma, {}>>)
  IN R(Call("expectSemicolon", <<e.p>>),
       [type |-> "ExpressionStatement", Expression |-> e.n, Directive |-> <<>>])

parseBlockOrShorthand(q) ==
  LET k == Call("PeekAt", <<q, 0>>)
  IN IF k.t.type = "{" THEN Call("parseBlock", <<k.p>>)
     ELSE Call("parseExpression", <<k.p, exprOrderConditional, {}>>)

BlockStatement(stmts) == [type |-> "BlockStatement", Body |-> stmts]

\* the directive prologue check on the first statement of a block
isUseStrict(stmt) ==
  /\ stmt.type = "ExpressionStatement"
  /\ stmt.Expression.type = "StringLiteral"
  /\ stmt.Expression.Value = <<"use strict">>

blockLoop(q, stmts) ==
  IF q.err # "none" THEN R(q, BlockStatement(stmts))
  ELSE
    LET k == Call("PeekAt", <<q, 0>>)
        i == Call("parseStatementItem", <<k.p>>)
    IN IF k.t.type = "}" THEN R(Call("ScanExpect", <<k.p, "}">>).p, BlockStatement(stmts))
       ELSE Call("blockLoop", <<Iterate(q, i.p), Append(stmts, i.n)>>)

parseBlock(q) ==
  LET o == Call("ScanExpect", <<q, "{">>)
      k == Call("PeekAt", <<o.p, 0>>)
      first == Call("parseStatementItem", <<k.p>>)
      strict == first.p.err = "none" /\ isUseStrict(first.n)
      \* ctx is a copy of p.ctx taken before the first statement
      ctx == IF strict THEN [k.p.ctx EXCEPT !.strictMode = TRUE] ELSE k.p.ctx
      stmt == IF strict THEN [first.n EXCEPT !.Directive = <<"use strict">>]
              ELSE first.n
      rest == Call("blockLoop", <<first.p, <<stmt>>>>)
  IN IF k.t.type = "}" THEN R(Call("ScanExpect", <<k.p, "}">>).p, BlockStatement(<<>>))
     ELSE R([rest.p EXCEPT !.ctx = ctx], rest.n)

parseVariableDeclaration(q) ==
  LET k == Call("PeekAt", <<q, 0>>)
      t == Call("keywordToIdentifier", <<k.p.ctx, k.t, FALSE>>)
      id == IF t.type = "ident"
              THEN LET i == Call("scanIdent", <<k.p>>)
                   IN R(i.p, [BindingPattern EXCEPT !.Identifier = i.lit])
            ELSE IF t.type = "["
              THEN LET a == Call("parseArrayBindingPattern", <<k.p>>)
                   IN R(a.p, [BindingPattern EXCEPT !.ArrayPattern = a.n])
            ELSE IF t.type = "{"
              THEN LET o == Call("parseObjectBindingPattern", <<k.p>>)
                   IN R(o.p, [BindingPattern EXCEPT !.ObjectPattern = o.n])
            ELSE R(SyntaxError(Call("Scan", <<k.p>>).p), BindingPattern)
      d == Call("bindingDefault", <<id.p>>)
  IN R(d.p, [type |-> "VariableDeclarator", ID |-> id.n, Init |-> d.n])

parseVariableDeclarationsLoop(q, v) ==
  IF q.err # "none" THEN R(q, v)
  ELSE
    LET d == Call("parseVariableDeclaration", <<q>>)
        k == Call("PeekAt", <<d.p, 0>>)
    IN IF k.t.type # "," THEN R(k.p, Append(v, d.n))
       ELSE Call("parseVariableDeclarationsLoop", <<Call("ScanExpect", <<k.p, ",">>).p, Append(v, d.n)>>)

parseVariableDeclarations(q) == Call("parseVariableDeclarationsLoop", <<q, <<>>>>)

VariableDeclaration(decls, kind) ==
  [type |-> "VariableDeclaration", Declarations |-> decls, Kind |-> kind]

parseVariableStatementNoSemicolon(q) ==
  LET d == Call("parseVariableDeclarations", <<Call("ScanExpect", <<q, "var">>).p>>)
  IN R(d.p, VariableDeclaration(d.n, "VarDeclaration"))

parseVariableStatement(q) ==
  LET n == Call("parseVariableStatementNoSemicolon", <<q>>) IN R(Call("expectSemicolon", <<n.p>>), n.n)

parseLexicalDeclarationNoSemicolon(q) ==
  LET s == Call("Scan", <<q>>)
      d == Call("parseVariableDeclarations", <<s.p>>)
  IN IF s.t.type = "let" THEN R(d.p, VariableDeclaration(d.n, "LetDeclaration"))
     ELSE IF s.t.type = "const" THEN R(d.p, VariableDeclaration(d.n, "ConstDeclaration"))
     ELSE R(SyntaxError(s.p), VariableDeclaration(<<>>, "VarDeclaration"))

parseLexicalDeclaration(q) ==
  LET n == Call("parseLexicalDeclarationNoSemicolon", <<q>>) IN R(Call("expectSemicolon", <<n.p>>), n.n)

parseEmptyExpression(q) == R(Call("expectSemicolon", <<q>>), [type |-> "EmptyStatement"])

parseIfStatement(q) ==
  LET o == Call("ScanExpect", <<Call("ScanExpect", <<q, "if">>).p, "(">>)
      test == Call("parseExpression", <<o.p, exprOrderComma, {}>>)
      cons == Call("parseStatement", <<Call("ScanExpect", <<test.p, ")">>).p>>)
      k == Call("PeekAt", <<cons.p, 0>>)
      alt == IF k.t.type = "else" THEN Call("parseStatement", <<Call("ScanExpect", <<k.p, "else">>).p>>)
             ELSE R(k.p, Nil)
  IN R(alt.p, [type |-> "IfStatement", Test |-> test.n, Consequent |-> cons.n,
               Alternate |-> alt.n])

parseDoWhileStatement(q) ==
  LET b == Call("parseStatement", <<Call("ScanExpect", <<q, "do">>).p>>)
      o == Call("ScanExpect", <<Call("ScanExpect", <<b.p, "while">>).p, "(">>)
      test == Call("parseExpression", <<o.p, exprOrderComma, {}>>)
  IN R(Call("expectSemicolon", <<Call("ScanExpect", <<test.p, ")">>).p>>),
       [type |-> "DoWhileStatement", Body |-> b.n, Test |-> test.n])

parseWhileStatement(q) ==
  LET o == Call("ScanExpect", <<Call("ScanExpect", <<q, "while">>).p, "(">>)
      test == Call("parseExpression", <<o.p, exprOrderComma, {}>>)
      b == Call("parseStatement", <<Call("ScanExpect", <<test.p, ")">>).p>>)
  IN R(b.p, [type |-> "WhileStatement", Test |-> test.n, Body |-> b.n])

\* the rest of a for-in / for-of statement, keyword next
forInOf(q, kw, left) ==
  LET r == Call("parseExpression", <<Call("ScanExpect", <<q, kw>>).p, exprOrderComma, {}>>)
      b == Call("parseStatement", <<Call("ScanExpect", <<r.p, ")">>).p>>)
  IN R(b.p, [type |-> IF kw = "in" THEN "ForInStatement" ELSE "ForOfStatement",
             Left |-> left, Right |-> r.n, Body |-> b.n])

\* test, update and body of a for statement, after the first `;`
forTail(q, init) ==
  LET k == Call("PeekAt", <<q, 0>>)
      test == IF k.t.type # ";" THEN Call("parseExpression", <<k.p, exprOrderComma, {}>>)
              ELSE R(k.p, Nil)
      k1 == Call("PeekAt", <<Call("expectSemicolon", <<test.p>>), 0>>)
      update == IF k1.t.type # ")" THEN Call("parseExpression", <<k1.p, exprOrderComma, {}>>)
                ELSE R(k1.p, Nil)
      b == Call("parseStatement", <<Call("ScanExpect", <<update.p, ")">>).p>>)
  IN R(b.p, [type |-> "ForStatement", Init |-> init, Test |-> test.n,
             Update |-> update.n, Body |-> b.n])

parseForStatement(q) ==
  LET o == Call("ScanExpect", <<Call("ScanExpect", <<q, "for">>).p, "(">>)
      t == Call("PeekAt", <<o.p, 0>>)
      v == IF t.t.type = "var" THEN Call("parseVariableStatementNoSemicolon", <<t.p>>)
           ELSE Call("parseExpression", <<t.p, exprOrderComma, {"DisallowIn"}>>)
      k == Call("PeekAt", <<v.p, 0>>)
  IN IF t.t.type = ";" THEN Call("forTail", <<Call("expectSemicolon", <<t.p>>), Nil>>)
     ELSE IF k.t.type \in {"in", "of"} THEN Call("forInOf", <<k.p, k.t.type, v.n>>)
     ELSE Call("forTail", <<Call("expectSemicolon", <<k.p>>), v.n>>)

\* the statements of one case or default clause
caseStatements(q, stmts) ==
  IF q.err # "none" THEN R(q, stmts)
  ELSE
    LET k == Call("PeekAt", <<q, 0>>)
        s == Call("parseStatement", <<k.p>>)
    IN IF k.t.type \in {"case", "default", "}"} THEN R(k.p, stmts)
       ELSE Call("caseStatements", <<Iterate(q, s.p), Append(stmts, s.n)>>)

switchLoop(q, disc, cases) ==
  LET n == [type |-> "SwitchStatement", Discriminant |-> disc, Cases |-> cases]
  IN IF q.err # "none" THEN R(q, n)
     ELSE
       LET k == Call("PeekAt", <<q, 0>>)
       IN IF k.t.type = "case"
            THEN LET test == Call("parseExpression", <<Call("ScanExpect", <<k.p, "case">>).p,
                                             exprOrderComma, {}>>)
                     c == Call("caseStatements", <<Call("ScanExpect", <<test.p, ":">>).p, <<>>>>)
                 IN Call("switchLoop", <<Iterate(q, c.p), disc,
                               Append(cases, [type |-> "SwitchCase", Test |-> test.n,
                                              Consequent |-> c.n])>>)
          ELSE IF k.t.type = "default"
            THEN LET c == Call("caseStatements", <<
                            Call("ScanExpect", <<Call("ScanExpect", <<k.p, "default">>).p, ":">>).p, <<>>>>)
                 IN Call("switchLoop", <<Iterate(q, c.p), disc,
                               Append(cases, [type |-> "SwitchCase", Test |-> Nil,
                                              Consequent |-> c.n])>>)
          ELSE IF k.t.type = "}" THEN R(Call("ScanExpect", <<k.p, "}">>).p, n)
          ELSE Call("switchLoop", <<Iterate(q, k.p), disc, cases>>)

parseSwitchStatement(q) ==
  LET o == Call("ScanExpect", <<Call("ScanExpect", <<q, "switch">>).p, "(">>)
      d == Call("parseExpression", <<o.p, exprOrderComma, {}>>)
      b == Call("ScanExpect", <<Call("ScanExpect", <<d.p, ")">>).p, "{">>)
  IN Call("switchLoop", <<b.p, d.n, <<>>>>)

\* continue and break: an optional label on the same line
parseJump(q, kw, typ) ==
  LET k == Call("PeekAt", <<Call("ScanExpect", <<q, kw>>).p, 0>>)
      t == Call("keywordToIdentifier", <<k.p.ctx, k.t, FALSE>>)
      i == Call("scanIdent", <<k.p>>)
  IN IF t.nl \/ t.type # "ident"
       THEN R(Call("expectSemicolon", <<k.p>>), [type |-> typ, Label |-> <<>>])
       ELSE R(Call("expectSemicolon", <<i.p>>), [type |-> typ, Label |-> i.lit])

parseContinueStatement(q) == Call("parseJump", <<q, "continue", "ContinueStatement">>)

parseBreakStatement(q) == Call("parseJump", <<q, "break", "BreakStatement">>)

parseReturnStatement(q) ==
  LET k == Call("PeekAt", <<Call("ScanExpect", <<q, "return">>).p, 0>>)
      a == Call("parseExpression", <<k.p, exprOrderComma, {}>>)
  IN IF k.t.nl \/ k.t.type \in {";", "}"}
       THEN R(Call("expectSemicolon", <<k.p>>), [type |-> "ReturnStatement", Argument |-> Nil])
       ELSE R(Call("expectSemicolon", <<a.p>>), [type |-> "ReturnStatement", Argument |-> a.n])

parseWithStatement(q) == R(Fail(q, "panic"), Nil)

parseThrowStatement(q) ==
  LET k == Call("PeekAt", <<Call("ScanExpect", <<q, "throw">>).p, 0>>)
      a == Call("parseExpression", <<IF k.t.nl THEN SyntaxError(k.p) ELSE k.p, exprOrderComma, {}>>)
  IN R(Call("expectSemicolon", <<a.p>>), [type |-> "ThrowStatement", Argument |-> a.n])

parseCatchParameter(q) ==
  LET s == Call("Scan", <<q>>)
      v == Call("bindingValue", <<s.p, Call("keywordToIdentifier", <<s.p.ctx, s.t, FALSE>>)>>)
  IN R(v.p, v.n)

parseTryStatement(q) ==
  LET b == Call("parseBlock", <<Call("ScanExpect", <<q, "try">>).p>>)
      k == Call("PeekAt", <<b.p, 0>>)
      k1 == Call("PeekAt", <<Call("ScanExpect", <<k.p, "catch">>).p, 0>>)
      param == IF k1.t.type = "("
                 THEN LET c == Call("parseCatchParameter", <<Call("ScanExpect", <<k1.p, "(">>).p>>)
                      IN R(Call("ScanExpect", <<c.p, ")">>).p, c.n)
                 ELSE R(k1.p, BindingPattern)
      hb == Call("parseBlock", <<param.p>>)
      h == IF k.t.type = "catch"
             THEN R(hb.p, [type |-> "CatchClause", Param |-> param.n, Body |-> hb.n])
             ELSE R(k.p, Nil)
      k2 == Call("PeekAt", <<h.p, 0>>)
      f == IF k2.t.type = "finally" THEN Call("parseBlock", <<Call("ScanExpect", <<k2.p, "finally">>).p>>)
           ELSE R(k2.p, Nil)
  IN R(f.p, [type |-> "TryStatement", Block |-> b.n, Handler |-> h.n,
             Finalizer |-> f.n])

parseDebuggerStatement(q) == R(Fail(q, "panic"), Nil)

parseLabelledStatement(q) ==
  LET i == Call("scanIdent", <<q>>)
      b == Call("parseStatement", <<Call("ScanExpect", <<i.p, ":">>).p>>)
  IN R(b.p, [type |-> "LabeledStatement", Label |-> i.lit, Body |-> b.n])

\* the token types that parseStatement sends to parseExpressionStatement
expressionStart ==
  {"++", "--", "delete", "void", "typeof", "+", "-", "~", "!", "this", "null",
   "true", "false", "new", "number", "string", "template", "[", "async", "let",
   "(", "/", "/="}

\* the check below with PeekAt(1) called whatever the first token is
startsDeclarationPeekAhead(q) ==
  LET k == Call("PeekAt", <<q, 0>>)
      k1 == Call("PeekAt", <<k.p, 1>>)
  IN IF k.t.type = "async"
       THEN R(k1.p, k1.t.type = "function" /\ ~k1.t.nl)
     ELSE IF k.t.type = "let"
       THEN R(k1.p, \/ k1.t.type \in {"[", "{"}
                    \/ Call("keywordToIdentifier", <<k1.p.ctx, k1.t, TRUE>>).type = "ident")
     ELSE R(k1.p, FALSE)

\* `async function` on one line and `let` followed by a binding are
\* declarations, for which parseStatement returns nil
startsDeclaration(q) ==
  LET k == Call("PeekAt", <<q, 0>>)
      k1 == Call("PeekAt", <<k.p, 1>>)
  IN IF k.t.type = "async"
       THEN R(k1.p, k1.t.type = "function" /\ ~k1.t.nl)
     ELSE IF k.t.type = "let"
       THEN R(k1.p, \/ k1.t.type \in {"[", "{"}
                    \/ Call("keywordToIdentifier", <<k1.p.ctx, k1.t, TRUE>>).type = "ident")
     ELSE R(k.p, FALSE)

parseStatement(q) ==
  IF q.err # "none" THEN R(q, Nil)
  ELSE
    LET k == Call("PeekAt", <<q, 0>>)
        y == k.t.type
        d == Call("startsDeclaration", <<k.p>>)
        k1 == Call("PeekAt", <<k.p, 1>>)
    IN IF y = "{" THEN Call("parseBlock", <<k.p>>)
       ELSE IF y = "var" THEN Call("parseVariableStatement", <<k.p>>)
       ELSE IF y = ";" THEN Call("parseEmptyExpression", <<k.p>>)
       ELSE IF y = "if" THEN Call("parseIfStatement", <<k.p>>)
       ELSE IF y \in expressionStart
         THEN IF d.n THEN R(d.p, Nil) ELSE Call("parseExpressionStatement", <<d.p>>)
       ELSE IF y = "do" THEN Call("parseDoWhileStatement", <<k.p>>)
       ELSE IF y = "while" THEN Call("parseWhileStatement", <<k.p>>)
       ELSE IF y = "for" THEN Call("parseForStatement", <<k.p>>)
       ELSE IF y = "switch" THEN Call("parseSwitchStatement", <<k.p>>)
       ELSE IF y = "continue" THEN Call("parseContinueStatement", <<k.p>>)
       ELSE IF y = "break" THEN Call("parseBreakStatement", <<k.p>>)
       ELSE IF y = "return" THEN Call("parseReturnStatement", <<k.p>>)
       ELSE IF y = "with" THEN Call("parseWithStatement", <<k.p>>)
       ELSE IF y = "throw" THEN Call("parseThrowStatement", <<k.p>>)
       ELSE IF y = "try" THEN Call("parseTryStatement", <<k.p>>)
       ELSE IF y = "debugger" THEN Call("parseDebuggerStatement", <<k.p>>)
       ELSE IF Call("keywordToIdentifier", <<k.p.ctx, k.t, FALSE>>).type = "ident"
         THEN IF k1.t.type = ":" THEN Call("parseLabelledStatement", <<k1.p>>)
              ELSE Call("parseExpressionStatement", <<k1.p>>)
       ELSE R(k.p, Nil)

parseFunctionDeclaration(q) ==
  LET name == Call("scanIdent", <<Call("ScanExpect", <<q, "function">>).p>>)
      params == Call("parseParametersTail", <<Call("ScanExpect", <<name.p, "(">>).p>>)
      b == Call("parseBlock", <<params.p>>)
  IN R(b.p, [type |-> "FunctionDeclaration", ID |-> name.lit, Params |-> params.n,
             Body |-> b.n])

\* one method of a class body; peek is the token the method starts at
classMethod(q, peek) ==
  LET static == peek.type = "static"
      k == IF static THEN Call("PeekAt", <<Call("Scan", <<q>>).p, 0>>) ELSE [p |-> q, t |-> peek]
      kind == IF k.t.type = "get" THEN "GetMethod"
              ELSE IF k.t.type = "set" THEN "SetMethod" ELSE "NormalMethod"
      s == Call("Scan", <<IF kind = "NormalMethod" THEN k.p ELSE Call("Scan", <<k.p>>).p>>)
      key == IF s.t.type = "ident" THEN R(s.p, Identifier(s.t.lit))
             ELSE IF s.t.type = "["
               THEN LET e == Call("parseExpression", <<s.p, exprOrderComma, {}>>)
                    IN R(Call("ScanExpect", <<e.p, "]">>).p, e.n)
             ELSE R(SyntaxError(s.p), Nil)
      ps == Call("parseParameters", <<key.p>>)
      b == Call("parseBlock", <<ps.p>>)
  IN R(b.p, [type |-> "MethodDefinition", Static |-> static, Kind |-> kind,
             Computed |-> (s.t.type = "["), Key |-> key.n,
             Value |-> [FunctionExpression EXCEPT !.Params = ps.n, !.Body = b.n]])

classBodyLoop(q, n) ==
  IF q.err # "none" THEN R(q, n)
  ELSE
    LET k == Call("PeekAt", <<q, 0>>)
        m == Call("classMethod", <<k.p, k.t>>)
    IN IF k.t.type = "}" THEN R(Call("Scan", <<k.p>>).p, n)
       ELSE Call("classBodyLoop", <<Iterate(q, m.p), Append(n, m.n)>>)

parseClassBody(q) == Call("classBodyLoop", <<Call("ScanExpect", <<q, "{">>).p, <<>>>>)

parseClassDeclaration(q) ==
  LET id == Call("scanIdent", <<Call("ScanExpect", <<q, "class">>).p>>)
      k == Call("PeekAt", <<id.p, 0>>)
      super == IF k.t.type = "extends"
                 THEN Call("parseExpression", <<Call("Scan", <<k.p>>).p, exprOrderMemberExpr, {}>>)
                 ELSE R(k.p, Nil)
      b == Call("parseClassBody", <<super.p>>)
  IN R(b.p, [type |-> "ClassDeclaration", ID |-> id.lit, SuperClass |-> super.n,
             Body |-> b.n])

parseDeclaration(q) ==
  LET k == Call("PeekAt", <<q, 0>>)
  IN IF k.t.type = "function" THEN Call("parseFunctionDeclaration", <<k.p>>)
     ELSE IF k.t.type \in {"let", "const"} THEN Call("parseLexicalDeclaration", <<k.p>>)
     ELSE IF k.t.type = "class" THEN Call("parseClassDeclaration", <<k.p>>)
     ELSE R(k.p, Nil)

parseStatementItem(q) ==
  LET s == Call("parseStatement", <<q>>)
      d == Call("parseDeclaration", <<s.p>>)
  IN IF q.err # "none" THEN R(q, Nil)
     ELSE IF s.p.err # "none" \/ s.n.type # "nil" THEN s
     ELSE IF d.p.err # "none" \/ d.n.type # "nil" THEN d
     ELSE R(SyntaxError(d.p), Nil)

(***************************************************************************)
(* Scripts and modules (script.go, module.go) and Parse (parser.go)        *)
(***************************************************************************)
ImportDeclNode ==
  [type |-> "ImportDeclNode", Module |-> <<>>, DefaultBinding |-> <<>>,
   NameSpace |-> <<>>, NamedImports |-> <<>>]

\* `from "module";` with `from` already consumed when fromDone
importFrom(q, n, fromDone) ==
  LET f == IF fromDone THEN q ELSE Call("ScanExpect", <<q, "from">>).p
      m == Call("ScanExpect", <<f, "string">>)
  IN R(Call("expectSemicolon", <<m.p>>), [n EXCEPT !.Module = StringConstant(m.t)])

importList(q, items) ==
  IF q.err # "none" THEN R(q, items)
  ELSE
    LET t == Call("Scan", <<q>>)
        id == Call("expectIdent", <<t.p, t.t>>)
        t1 == Call("Scan", <<id.p>>)
        item == [Identifier |-> id.lit, AsBinding |-> <<>>]
        as == Call("scanIdent", <<t1.p>>)
        t2 == Call("Scan", <<as.p>>)
        asItem == [item EXCEPT !.AsBinding = as.lit]
    IN IF t.t.type = "}" THEN R(t.p, items)
       ELSE IF t1.t.type = "}" THEN R(t1.p, Append(items, item))
       ELSE IF t1.t.type = "," THEN Call("importList", <<t1.p, Append(items, item)>>)
       ELSE IF t1.t.type = "as"
         THEN IF t2.t.type = "}" THEN R(t2.p, Append(items, asItem))
              ELSE IF t2.t.type = "," THEN Call("importList", <<t2.p, Append(items, asItem)>>)
              ELSE Call("importList", <<Iterate(q, t2.p), items>>)
       ELSE Call("importList", <<Iterate(q, t1.p), items>>)

\* the namespace or named imports of an import declaration, from token t
importBindings(q, t, n) ==
  IF q.err # "none" THEN R(q, n)
  ELSE IF t.type = "*"
    THEN LET i == Call("scanIdent", <<Call("ScanExpect", <<q, "as">>).p>>)
         IN Call("importFrom", <<i.p, [n EXCEPT !.NameSpace = i.lit], FALSE>>)
  ELSE IF t.type = "{"
    THEN LET l == Call("importList", <<q, <<>>>>)
         IN Call("importFrom", <<l.p, [n EXCEPT !.NamedImports = l.n], FALSE>>)
  ELSE R(SyntaxError(q), n)

parseImportDecl(q) ==
  LET s == Call("Scan", <<Call("ScanExpect", <<q, "import">>).p>>)
      t == Call("keywordToIdentifier", <<s.p.ctx, s.t, FALSE>>)
      n == [ImportDeclNode EXCEPT !.DefaultBinding = t.lit]
      t1 == Call("Scan", <<s.p>>)
      t2 == Call("Scan", <<t1.p>>)
  IN IF t.type = "string"
       THEN R(Call("expectSemicolon", <<s.p>>), [ImportDeclNode EXCEPT !.Module = StringConstant(t)])
     ELSE IF t.type = "ident"
       THEN IF t1.t.type = "," THEN Call("importBindings", <<t2.p, t2.t, n>>)
            ELSE IF t1.t.type = "from" THEN Call("importFrom", <<t1.p, n, TRUE>>)
            ELSE R(SyntaxError(t1.p), n)
     ELSE Call("importBindings", <<s.p, t, ImportDeclNode>>)

parseExportDecl(q) == R(Fail(q, "panic"), Nil)

parseModuleItem(q) ==
  LET k == Call("PeekAt", <<q, 0>>)
  IN IF k.t.type = "none" THEN R(k.p, Nil)
     ELSE IF k.t.type = "import" THEN Call("parseImportDecl", <<k.p>>)
     ELSE IF k.t.type = "export" THEN Call("parseExportDecl", <<k.p>>)
     ELSE Call("parseStatementItem", <<k.p>>)

moduleLoop(q, items) ==
  IF q.err # "none" THEN R(q, [type |-> "ModuleNode", Body |-> items])
  ELSE
    LET k == Call("PeekAt", <<q, 0>>)
        i == Call("parseModuleItem", <<k.p>>)
    IN IF k.t.type = "none" THEN R(k.p, [type |-> "ModuleNode", Body |-> items])
       ELSE Call("moduleLoop", <<Iterate(q, i.p), Append(items, i.n)>>)

parseModule(q) == Call("moduleLoop", <<[q EXCEPT !.ctx.strictMode = TRUE], <<>>>>)

scriptLoop(q, items) ==
  IF q.err # "none" THEN R(q, [type |-> "ScriptNode", Body |-> items])
  ELSE
    LET k == Call("PeekAt", <<q, 0>>)
        i == Call("parseStatementItem", <<k.p>>)
    IN IF k.t.type = "none" THEN R(k.p, [type |-> "ScriptNode", Body |-> items])
       ELSE Call("scriptLoop", <<Iterate(q, i.p), Append(items, i.n)>>)

parseScript(q) == Call("scriptLoop", <<q, <<>>>>)

ScriptMode == "ScriptMode"
ModuleMode == "ModuleMode"
ExpressionMode == "ExpressionMode"
ParseModes == {ScriptMode, ModuleMode, ExpressionMode}

\* Parse: what the caller gets.  The deferred recover turns the three error
\* types into err; any other panic value is panicked again and leaves Parse,
\* and a parse that never ends returns nothing.
Parse(q, opt) ==
  LET r == IF opt = ScriptMode THEN Call("parseScript", <<q>>)
           ELSE IF opt = ModuleMode THEN Call("parseModule", <<q>>)
           ELSE Call("parseExpression", <<q, exprOrderComma, {}>>)
  IN IF r.p.err = "none"
       THEN [outcome |-> "return", n |-> r.n, err |-> "nil", p |-> r.p]
     ELSE IF r.p.err \in {"syntax", "encoding", "parser"}
       THEN [outcome |-> "return", n |-> Nil, err |-> r.p.err, p |-> r.p]
     ELSE [outcome |-> r.p.err, n |-> Nil, err |-> "nil", p |-> r.p]

(***************************************************************************)
(* Source spans (ast.BaseNode, Parser.setStart, Parser.setEnd).  A         *)
(* location is a row and a column; at token level the source text is one   *)
(* line with one column per token.  The zero Location, which a node holds  *)
(* until SetStart or SetEnd is called, has row 0.                           *)
(*                                                                         *)
(* parseScript and parseBlock declare a local node n, call setStart(&n),   *)
(* defer setEnd(&n) and leave by `return n`.  The result is not a named    *)
(* result: `return n` copies n into the result, the deferred call runs     *)
(* after that and writes to the local n.  A frame holds both: n is the     *)
(* value the caller gets, local is the local variable after the deferred   *)
(* call.                                                                   *)
(***************************************************************************)
ZeroLocation == [Row |-> 0, Column |-> 0]

\* Scanner.Location as an ast.Location
SpanLocation(q) == [Row |-> 1, Column |-> Location(q) + 1]

\* a node with the zero BaseNode
BaseNode(node) == [Start |-> ZeroLocation, End |-> ZeroLocation, node |-> node]

setStart(q, n) == [n EXCEPT !.Start = SpanLocation(q)]

setEnd(q, n) == [n EXCEPT !.End = SpanLocation(q)]

\* `return n` under a pending `defer p.setEnd(&n)`
returnDeferSetEnd(q, n) == [p |-> q, n |-> n, local |-> setEnd(q, n)]

\* parseBlock with the span of its node
parseBlockSpan(q) ==
  LET n == setStart(q, BaseNode(Nil))
      b == Call("parseBlock", <<q>>)
  IN returnDeferSetEnd(b.p, [n EXCEPT !.node = b.n])

\* the loop of parseScript with the spans of the blocks in its body
scriptSpanLoop(q, items) ==
  IF q.err # "none" THEN R(q, items)
  ELSE
    LET k == Call("PeekAt", <<q, 0>>)
        b == Call("parseBlockSpan", <<k.p>>)
        i == Call("parseStatementItem", <<k.p>>)
    IN IF k.t.type = "none" THEN R(k.p, items)
       ELSE IF k.t.type = "{"
         THEN Call("scriptSpanLoop", <<Iterate(q, b.p), Append(items, b.n)>>)
       ELSE Call("scriptSpanLoop", <<Iterate(q, i.p), Append(items, BaseNode(i.n))>>)

\* parseScript with the span of its node
parseScriptSpan(q) ==
  LET m == setStart(q, BaseNode(Nil))
      l == Call("scriptSpanLoop", <<q, <<>>>>)
  IN returnDeferSetEnd(l.p, [m EXCEPT !.node = [type |-> "ScriptNode", Body |-> l.n]])

(***************************************************************************)
(* Tree traversal (package ast)                                            *)
(***************************************************************************)
RECURSIVE Flatten(_)
Flatten(ss) == IF Len(ss) = 0 THEN <<>> ELSE Head(ss) \o Flatten(Tail(ss))

\* the default expressions under a binding pattern
RECURSIVE PatternInits(_)
PatternInits(bp) ==
  LET a == bp.ArrayPattern
      o == bp.ObjectPattern
  IN (IF a.type = "nil" THEN <<>>
      ELSE Flatten([i \in 1..Len(a.Elements) |->
                      <<a.Elements[i].Init>> \o PatternInits(a.Elements[i].Value)])
           \o PatternInits(a.RestElement))
     \o
     (IF o.type = "nil" THEN <<>>
      ELSE Flatten([i \in 1..Len(o.Properties) |->
                      <<o.Properties[i].Init>> \o PatternInits(o.Properties[i].Value)]))

ParamInits(ps) ==
  Flatten([i \in 1..Len(ps.Parameters) |->
             <<ps.Parameters[i].Init>> \o PatternInits(ps.Parameters[i].Value)])

\* the nodes directly under n, nil slots included
Children(n) ==
  LET y == n.type
  IN CASE y \in {"UpdateExpression", "UnaryExpression", "SpreadElement",
                 "ReturnStatement", "ThrowStatement"} -> <<n.Argument>>
       [] y = "MemberExpression" -> <<n.Object, n.Property>>
       [] y \in {"CallExpression", "NewExpression"} -> <<n.Callee>> \o n.Arguments
       [] y \in {"BinaryExpression", "AssignmentExpression"} -> <<n.Left, n.Right>>
       [] y = "ConditionalExpression" -> <<n.Test, n.Consequent, n.Alternate>>
       [] y = "SequenceExpression" -> n.Expressions
       [] y = "ParenthesizedExpression" -> <<n.Expression>>
       [] y = "ArrayExpression" -> n.Elements
       [] y = "ObjectExpression" ->
            Flatten([i \in 1..Len(n.Properties) |->
                       <<n.Properties[i].Key, n.Properties[i].Value,
                         n.Properties[i].DestructureInit>>])
       [] y \in {"FunctionExpression", "FunctionDeclaration"} ->
            ParamInits(n.Params) \o <<n.Body>>
       [] y = "TemporalArrayRestElement" ->
            PatternInits([Identifier |-> n.Identifier, ObjectPattern |-> n.ObjectPattern,
                          ArrayPattern |-> n.ArrayPattern])
       [] y = "ExpressionStatement" -> <<n.Expression>>
       [] y \in {"BlockStatement", "ScriptNode", "ModuleNode"} -> n.Body
       [] y = "VariableDeclaration" -> n.Declarations
       [] y = "VariableDeclarator" -> PatternInits(n.ID) \o <<n.Init>>
       [] y = "IfStatement" -> <<n.Test, n.Consequent, n.Alternate>>
       [] y \in {"DoWhileStatement", "WhileStatement"} -> <<n.Test, n.Body>>
       [] y = "ForStatement" -> <<n.Init, n.Test, n.Update, n.Body>>
       [] y \in {"ForInStatement", "ForOfStatement"} -> <<n.Left, n.Right, n.Body>>
       [] y = "SwitchStatement" -> <<n.Discriminant>> \o n.Cases
       [] y = "SwitchCase" -> <<n.Test>> \o n.Consequent
       [] y = "TryStatement" -> <<n.Block, n.Handler, n.Finalizer>>
       [] y = "CatchClause" -> PatternInits(n.Param) \o <<n.Body>>
       [] y = "LabeledStatement" -> <<n.Body>>
       [] y = "ClassDeclaration" -> <<n.SuperClass>> \o n.Body
       [] y = "MethodDefinition" -> <<n.Key, n.Value>>
       [] OTHER -> <<>>

\* n is or contains a temporal node, at any depth
RECURSIVE HasTemporal(_)
HasTemporal(n) ==
  \/ n.type \in TemporalTypes
  \/ \E i \in 1..Len(Children(n)) : HasTemporal(Children(n)[i])

\* ContainsTemporalNodes of the node types that do not override it
baseContainsTemporalNodes(n) == IF HasTemporal(n) THEN "yes" ELSE "no"

\* the loop of ArrayExpression and SequenceExpression over their elements
RECURSIVE ContainsTemporalNodes(_)
RECURSIVE elemsContainTemporalNodes(_, _)
elemsContainTemporalNodes(elems, i) ==
  IF i > Len(elems) THEN "no"
  ELSE LET c == ContainsTemporalNodes(elems[i])
       IN IF c = "no" THEN elemsContainTemporalNodes(elems, i + 1) ELSE c

\* the loop of ObjectExpression: Key || Value of every property
RECURSIVE propsContainTemporalNodes(_, _)
propsContainTemporalNodes(props, i) ==
  IF i > Len(props) THEN "no"
  ELSE LET k == ContainsTemporalNodes(props[i].Key)
           v == ContainsTemporalNodes(props[i].Value)
       IN IF k # "no" THEN k
          ELSE IF v # "no" THEN v
          ELSE propsContainTemporalNodes(props, i + 1)

ContainsTemporalNodes(n) ==
  IF n.type = "nil" THEN "panic"
  ELSE IF n.type \in TemporalTypes THEN "yes"
  ELSE IF n.type \in {"ArrayExpression", "SequenceExpression"}
    THEN elemsContainTemporalNodes(Children(n), 1)
  ELSE IF n.type = "ObjectExpression" THEN propsContainTemporalNodes(n.Properties, 1)
  ELSE baseContainsTemporalNodes(n)

\* a call of a function of the parser by its name
Call(f, a) ==
  CASE f = "PeekAt" -> PeekAt(a[1], a[2])
    [] f = "ScanExpect" -> ScanExpect(a[1], a[2])
    [] f = "Scan" -> Scan(a[1])
    [] f = "expectSemicolon" -> expectSemicolon(a[1])
    [] f = "scanIdent" -> scanIdent(a[1])
    [] f = "forceScanIdent" -> forceScanIdent(a[1])
    [] f = "expectIdent" -> expectIdent(a[1], a[2])
    [] f = "forceIdent" -> forceIdent(a[1], a[2])
    [] f = "ReScan" -> ReScan(a[1])
    [] f = "keywordToIdentifier" -> keywordToIdentifier(a[1], a[2], a[3])
    [] f = "convArrayElem" -> convArrayElem(a[1], a[2])
    [] f = "convArray" -> convArray(a[1], a[2], a[3], a[4])
    [] f = "convProperty" -> convProperty(a[1], a[2])
    [] f = "convObject" -> convObject(a[1], a[2], a[3], a[4])
    [] f = "convarg" -> convarg(a[1], a[2], a[3])
    [] f = "convargs" -> convargs(a[1], a[2], a[3], a[4])
    [] f = "convertExprToArrowParams" -> convertExprToArrowParams(a[1], a[2])
    [] f = "arrowFunction" -> arrowFunction(a[1], a[2], a[3])
    [] f = "exprParen" -> exprParen(a[1])
    [] f = "exprAsync" -> exprAsync(a[1], a[2])
    [] f = "exprPrimary" -> exprPrimary(a[1], a[2], a[3], a[4])
    [] f = "exprLoop" -> exprLoop(a[1], a[2], a[3], a[4])
    [] f = "parseExpression" -> parseExpression(a[1], a[2], a[3])
    [] f = "parseArrayBindingPattern" -> parseArrayBindingPattern(a[1])
    [] f = "parseObjectBindingPattern" -> parseObjectBindingPattern(a[1])
    [] f = "parseParameters" -> parseParameters(a[1])
    [] f = "arrayElisions" -> arrayElisions(a[1], a[2])
    [] f = "arrayRest" -> arrayRest(a[1])
    [] f = "arrayTailLoop" -> arrayTailLoop(a[1], a[2], a[3])
    [] f = "parseArrayTail" -> parseArrayTail(a[1], a[2])
    [] f = "parseFunctionExpressionTail" -> parseFunctionExpressionTail(a[1], a[2])
    [] f = "argumentsLoop" -> argumentsLoop(a[1], a[2])
    [] f = "parseArguments" -> parseArguments(a[1])
    [] f = "objectRest" -> objectRest(a[1])
    [] f = "objectSpecifiers" -> objectSpecifiers(a[1], a[2], a[3])
    [] f = "objectKey" -> objectKey(a[1], a[2], a[3])
    [] f = "objectValue" -> objectValue(a[1], a[2], a[3], a[4])
    [] f = "objectTailLoop" -> objectTailLoop(a[1], a[2], a[3])
    [] f = "parseObjectTail" -> parseObjectTail(a[1], a[2])
    [] f = "bindingDefault" -> bindingDefault(a[1])
    [] f = "bindingValue" -> bindingValue(a[1], a[2])
    [] f = "parametersLoop" -> parametersLoop(a[1], a[2])
    [] f = "parseParametersTail" -> parseParametersTail(a[1])
    [] f = "arrayBindingRest" -> arrayBindingRest(a[1])
    [] f = "arrayBindingLoop" -> arrayBindingLoop(a[1], a[2])
    [] f = "parseArrayBindingPatternTail" -> parseArrayBindingPatternTail(a[1])
    [] f = "objectBindingTarget" -> objectBindingTarget(a[1])
    [] f = "objectBindingLoop" -> objectBindingLoop(a[1], a[2])
    [] f = "parseObjectBindingPatternTail" -> parseObjectBindingPatternTail(a[1])
    [] f = "parseExpressionStatement" -> parseExpressionStatement(a[1])
    [] f = "parseBlockOrShorthand" -> parseBlockOrShorthand(a[1])
    [] f = "blockLoop" -> blockLoop(a[1], a[2])
    [] f = "parseBlock" -> parseBlock(a[1])
    [] f = "parseVariableDeclaration" -> parseVariableDeclaration(a[1])
    [] f = "parseVariableDeclarationsLoop" -> parseVariableDeclarationsLoop(a[1], a[2])
    [] f = "parseVariableDeclarations" -> parseVariableDeclarations(a[1])
    [] f = "parseVariableStatementNoSemicolon" -> parseVariableStatementNoSemicolon(a[1])
    [] f = "parseVariableStatement" -> parseVariableStatement(a[1])
    [] f = "parseLexicalDeclarationNoSemicolon" -> parseLexicalDeclarationNoSemicolon(a[1])
    [] f = "parseLexicalDeclaration" -> parseLexicalDeclaration(a[1])
    [] f = "parseEmptyExpression" -> parseEmptyExpression(a[1])
    [] f = "parseIfStatement" -> parseIfStatement(a[1])
    [] f = "parseDoWhileStatement" -> parseDoWhileStatement(a[1])
    [] f = "parseWhileStatement" -> parseWhileStatement(a[1])
    [] f = "forInOf" -> forInOf(a[1], a[2], a[3])
    [] f = "forTail" -> forTail(a[1], a[2])
    [] f = "parseForStatement" -> parseForStatement(a[1])
    [] f = "caseStatements" -> caseStatements(a[1], a[2])
    [] f = "switchLoop" -> switchLoop(a[1], a[2], a[3])
    [] f = "parseSwitchStatement" -> parseSwitchStatement(a[1])
    [] f = "parseJump" -> parseJump(a[1], a[2], a[3])
    [] f = "parseContinueStatement" -> parseContinueStatement(a[1])
    [] f = "parseBreakStatement" -> parseBreakStatement(a[1])
    [] f = "parseReturnStatement" -> parseReturnStatement(a[1])
    [] f = "parseWithStatement" -> parseWithStatement(a[1])
    [] f = "parseThrowStatement" -> parseThrowStatement(a[1])
    [] f = "parseCatchParameter" -> parseCatchParameter(a[1])
    [] f = "parseTryStatement" -> parseTryStatement(a[1])
    [] f = "parseDebuggerStatement" -> parseDebuggerStatement(a[1])
    [] f = "parseLabelledStatement" -> parseLabelledStatement(a[1])
    [] f = "startsDeclaration" -> startsDeclaration(a[1])
    [] f = "parseStatement" -> parseStatement(a[1])
    [] f = "parseFunctionDeclaration" -> parseFunctionDeclaration(a[1])
    [] f = "classMethod" -> classMethod(a[1], a[2])
    [] f = "classBodyLoop" -> classBodyLoop(a[1], a[2])
    [] f = "parseClassBody" -> parseClassBody(a[1])
    [] f = "parseClassDeclaration" -> parseClassDeclaration(a[1])
    [] f = "parseDeclaration" -> parseDeclaration(a[1])
    [] f = "parseStatementItem" -> parseStatementItem(a[1])
    [] f = "importFrom" -> importFrom(a[1], a[2], a[3])
    [] f = "importList" -> importList(a[1], a[2])
    [] f = "importBindings" -> importBindings(a[1], a[2], a[3])
    [] f = "parseImportDecl" -> parseImportDecl(a[1])
    [] f = "parseExportDecl" -> parseExportDecl(a[1])
    [] f = "parseModuleItem" -> parseModuleItem(a[1])
    [] f = "moduleLoop" -> moduleLoop(a[1], a[2])
    [] f = "parseModule" -> parseModule(a[1])
    [] f = "scriptLoop" -> scriptLoop(a[1], a[2])
    [] f = "parseScript" -> parseScript(a[1])
    [] f = "Parse" -> Parse(a[1], a[2])
    [] f = "parseBlockSpan" -> parseBlockSpan(a[1])
    [] f = "scriptSpanLoop" -> scriptSpanLoop(a[1], a[2])
    [] f = "parseScriptSpan" -> parseScriptSpan(a[1])
    [] f = "ContainsTemporalNodes" -> ContainsTemporalNodes(a[1])

(***************************************************************************)
(* Inputs                                                                  *)
(***************************************************************************)
\* all sequences over A of length at most n
SeqsUpTo(A, n) == UNION {[1..k -> A] : k \in 0..n}

(***************************************************************************)
(* SpecScanner: the parser's use of the token lookahead buffer.  A run      *)
(* peeks, scans and expects semicolons in any order over one token         *)
(* sequence; out records the last operation and the state it started in.   *)
(***************************************************************************)
MaxScanLen == 3
MaxPeek == 1

ScanAlphabet ==
  {P(";"), P("}"), I("a"), NL(P(";")), NL(P("}")), NL(I("a"))}

InitScanner ==
  /\ src \in SeqsUpTo(ScanAlphabet, MaxScanLen)
  /\ mode = "scanner"
  /\ p = NewParser(src)
  /\ out = [op |-> "none", before |-> NewParser(src), t |-> TokenNone]
  /\ pc = "run"

\* a syntax error unwinds the parser: nothing runs after it
Ran(op, r) ==
  /\ p' = r.p
  /\ out' = [op |-> op, before |-> p, t |-> r.t]
  /\ pc' = IF r.p.err = "none" THEN "run" ELSE "done"
  /\ UNCHANGED <<src, mode>>

DoScan == pc = "run" /\ Ran("Scan", Scan(p))

DoPeekAt == pc = "run" /\ \E i \in 0..MaxPeek : Ran("PeekAt", PeekAt(p, i))

DoExpectSemicolon ==
  pc = "run" /\ Ran("expectSemicolon", [p |-> expectSemicolon(p), t |-> TokenNone])

NextScanner == DoScan \/ DoPeekAt \/ DoExpectSemicolon

SpecScanner == InitScanner /\ [][NextScanner]_vars

\* the token the next Scan would return, read off the buffer and the input
NextToken(q) ==
  IF Len(q.last) > 0 THEN q.last[1]
  ELSE IF q.pos < Len(q.toks) THEN q.toks[q.pos + 1]
  ELSE TokenNone

SemicolonInsertable(t) ==
  t.type = ";" \/ t.nl \/ t.type = "}" \/ t.type = "none"

\* C7: expectSemicolon succeeds exactly when the next token is `;`, carries
\* the NewLine flag, is `}` or is the end of input; it consumes one token when
\* that token is `;` and none in the other three cases; in every other case
\* it raises a syntax error.
C7_ExpectSemicolon ==
  out.op = "expectSemicolon" =>
    LET next == NextToken(out.before)
    IN /\ (p.err = "none") <=> SemicolonInsertable(next)
       /\ p.err \in {"none", "syntax"}
       /\ p.err = "none" =>
            Consumed(p) - Consumed(out.before) = IF next.type = ";" THEN 1 ELSE 0

\* C7 witness: a semicolon is inserted before a `}` on the same line, with
\* nothing consumed
C7_Witness ==
  /\ out.op = "expectSemicolon"
  /\ NextToken(out.before) = P("}")
  /\ p.err = "none"
  /\ Consumed(p) = Consumed(out.before)
  /\ Consumed(p) > 0

(***************************************************************************)
(* SpecParse: Parse in each mode over statement-level token sequences.     *)
(* Every input is a template's head, a free body over the template's       *)
(* alphabet, and the template's tail.  Each Parse call runs on a parser of *)
(* its own; out keeps what each mode's call gave.                          *)
(***************************************************************************)
MaxBody == 3

Template(head, alpha, tail) == [head |-> head, alpha |-> alpha, tail |-> tail]

ParseTemplates ==
  { Template(<<>>,
             {I("a"), I("arguments"), P("="), P(";"), K("var"), K("let"), K("static"),
              K("with"), K("debugger"), K("export"), K("class"), P("{"), P("}")},
             <<>>),
    Template(<<K("switch"), P("("), I("a"), P(")"), P("{")>>,
             {K("case"), K("default"), P("}"), P(")"), P(":"), P(";"), I("a"),
              K("const"), K("function")},
             <<>>),
    Template(<<S("use strict"), P(";")>>,
             {K("var"), K("let"), K("static"), I("a"), P("="), P(";")},
             <<>>),
    Template(<<K("function"), I("f"), P("("), P(")"), P("{"), S("use strict"), P(";")>>,
             {K("var"), K("let"), K("static"), I("a"), P("="), P(";")},
             <<P("}")>>),
    Template(<<K("try"), P("{"), P("}"), K("catch"), P("(")>>,
             {K("static"), K("let"), I("a"), P(")")},
             <<P("{"), P("}")>>) }

ParseInputs ==
  UNION {{t.head \o b \o t.tail : b \in SeqsUpTo(t.alpha, MaxBody)} : t \in ParseTemplates}

Pending == [outcome |-> "pending", n |-> Nil, err |-> "nil", p |-> NewParser(<<>>)]

InitParse ==
  /\ src \in ParseInputs
  /\ mode = "none"
  /\ p = NewParser(src)
  /\ out = [m \in ParseModes |-> Pending]
  /\ pc = "ready"

DoParse(m) ==
  /\ out[m].outcome = "pending"
  /\ LET r == Call("Parse", <<NewParser(src), m>>)
     IN /\ out' = [out EXCEPT ![m] = r]
        /\ p' = r.p
  /\ mode' = m
  /\ pc' = "parsed"
  /\ UNCHANGED src

DoParseScript == DoParse(ScriptMode)

DoParseModule == DoParse(ModuleMode)

DoParseExpression == DoParse(ExpressionMode)

NextParse == DoParseScript \/ DoParseModule \/ DoParseExpression

SpecParse == InitParse /\ [][NextParse]_vars

Returned(r) == r.outcome = "return" /\ r.err = "nil"

\* C1: in every mode Parse returns exactly one of (a non-nil node, nil error)
\* and (nil node, one syntax, encoding or parser error); no panic leaves it,
\* whatever the input, `with`, `debugger`, `export` and class expressions
\* included.
C1_ParseReturns ==
  \A m \in ParseModes :
    /\ out[m].outcome # "panic"
    /\ out[m].outcome = "return" =>
         \/ out[m].err = "nil" /\ out[m].n.type # "nil"
         \/ out[m].err \in {"syntax", "encoding", "parser"} /\ out[m].n.type = "nil"

\* C2: Parse terminates on every input: every loop of the parser consumes a
\* token or exits, also in a switch body whose next token is not `case`,
\* `default` or `}` and in a case body whose next token starts no statement.
C2_ParseTerminates == \A m \in ParseModes : out[m].outcome # "hang"

\* n and the nodes under it, at every depth
RECURSIVE Nodes(_)
Nodes(n) ==
  <<n>> \o Flatten([i \in 1..Len(Children(n)) |-> Nodes(Children(n)[i])])

StrictReservedNames ==
  {<<"implements">>, <<"interface">>, <<"let">>, <<"package">>, <<"private">>,
   <<"protected">>, <<"public">>, <<"static">>}

AssignsToArguments(n) ==
  \E i \in 1..Len(Nodes(n)) :
    LET m == Nodes(n)[i]
    IN /\ m.type = "AssignmentExpression"
       /\ m.Left.type = "Identifier"
       /\ m.Left.Name = <<"arguments">>

\* a variable declarator or a catch clause under n names a strict-reserved word
BindsStrictReserved(n) ==
  \E i \in 1..Len(Nodes(n)) :
    LET m == Nodes(n)[i]
    IN \/ m.type = "VariableDeclarator" /\ m.ID.Identifier \in StrictReservedNames
       \/ m.type = "CatchClause" /\ m.Param.Identifier \in StrictReservedNames

NoUseStrict(toks) == \A i \in 1..Len(toks) : toks[i] # S("use strict")

\* C9: a text that script mode accepts without a "use strict" directive and
\* that assigns to `arguments` or binds a strict-reserved word is rejected
\* with an error in module mode.
C9_ModuleModeIsStrict ==
  (/\ out[ScriptMode].outcome # "pending"
   /\ out[ModuleMode].outcome # "pending"
   /\ NoUseStrict(src)
   /\ Returned(out[ScriptMode])
   /\ AssignsToArguments(out[ScriptMode].n) \/ BindsStrictReserved(out[ScriptMode].n)) =>
    out[ModuleMode].outcome = "return" /\ out[ModuleMode].err # "nil"

\* the statement lists of the script and of the function bodies under n
ScopeBodies(n) ==
  LET body(m) ==
        IF m.type = "ScriptNode" THEN <<m.Body>>
        ELSE IF m.type \in {"FunctionDeclaration", "FunctionExpression"}
                /\ m.Body.type = "BlockStatement" THEN <<m.Body.Body>>
        ELSE <<>>
  IN Flatten([i \in 1..Len(Nodes(n)) |-> body(Nodes(n)[i])])

\* C10: in a script or function body that starts with the expression
\* statement "use strict", that statement carries the directive and no later
\* statement of the scope binds a strict-reserved word.
C10_UseStrictDirective ==
  Returned(out[ScriptMode]) =>
    \A i \in 1..Len(ScopeBodies(out[ScriptMode].n)) :
      LET b == ScopeBodies(out[ScriptMode].n)[i]
      IN (Len(b) > 0 /\ isUseStrict(b[1])) =>
           /\ b[1].Directive = <<"use strict">>
           /\ \A j \in 2..Len(b) : ~BindsStrictReserved(b[j])

(***************************************************************************)
(* SpecCover: the cover grammar of `(` ... `)`.  An input is the token      *)
(* sequence E between the parentheses: a parameter list built from          *)
(* identifiers, defaults and array and object patterns nested up to         *)
(* MaxDepth, or one of a few expressions with a rest element.  The actions  *)
(* parse E alone, `( E )`, `( E ) => a` and `async ( E )` as expressions    *)
(* and `E )` with the parameter parser; out keeps each result.              *)
(***************************************************************************)
MaxDepth == 2

Wrap(open, e, close) == open \o e \o close

\* binding elements: a target, or a target with a default
RECURSIVE CoverElements(_)
CoverElements(d) ==
  IF d = 0 THEN {<<I("a")>>, <<I("a"), P("="), I("b")>>}
  ELSE LET E == CoverElements(d - 1)
           arrays ==
             {<<P("["), P("]")>>, <<P("["), P("..."), I("a"), P("]")>>}
             \cup {Wrap(<<P("[")>>, e, <<P("]")>>) : e \in E}
             \cup {Wrap(<<P("["), P(",")>>, e, <<P("]")>>) : e \in E}
             \cup {Wrap(<<P("[")>>, e, <<P(","), P("]")>>) : e \in E}
             \cup {Wrap(<<P("[")>>, e, <<P(","), P(","), I("a"), P("]")>>) : e \in E}
             \cup {Wrap(<<P("[")>>, e, <<P(","), P("..."), I("a"), P("]")>>) : e \in E}
           objects ==
             {<<P("{"), P("}")>>, <<P("{"), I("a"), P("}")>>,
              <<P("{"), I("a"), P("="), I("b"), P("}")>>,
              <<P("{"), I("a"), P(","), I("b"), P("}")>>,
              <<P("{"), P("..."), I("a"), P("}")>>,
              <<P("{"), I("a"), P(","), P("..."), I("b"), P("}")>>}
             \cup {Wrap(<<P("{"), I("a"), P(":")>>, e, <<P("}")>>) : e \in E}
           patterns == arrays \cup objects
       IN E \cup patterns \cup {t \o <<P("="), I("b")>> : t \in patterns}

\* parameter lists: binding elements and an optional trailing rest parameter
ParameterLists ==
  CoverElements(MaxDepth)
  \cup {<<P("..."), I("a")>>}
  \cup {e \o <<P(","), P("..."), I("a")>> : e \in CoverElements(MaxDepth - 1)}
  \cup {e \o <<P(",")>> \o f : e, f \in CoverElements(0)}

\* expressions with an arrow-only production under an operator or in a list
RestExpressions ==
  {<<>>, <<P("!"), P("..."), I("a")>>, <<I("a"), P("+"), P("..."), I("b")>>,
   <<I("a"), P("="), P("..."), I("b")>>, <<I("a"), P(","), P("..."), I("b")>>,
   <<I("a"), P("+"), I("b")>>, <<P("!"), I("a")>>}

CoverInputs == ParameterLists \cup RestExpressions

CoverForms == {"plain", "paren", "arrow", "async", "parameters"}

InitCover ==
  /\ src \in CoverInputs
  /\ mode = ExpressionMode
  /\ p = NewParser(src)
  /\ out = [f \in CoverForms |-> Pending]
  /\ pc = "ready"

Parsed(f, r) ==
  /\ out[f].outcome = "pending"
  /\ out' = [out EXCEPT ![f] = r]
  /\ p' = r.p
  /\ pc' = "parsed"
  /\ UNCHANGED <<src, mode>>

CoverText(f) ==
  CASE f = "plain" -> src
    [] f = "paren" -> Wrap(<<P("(")>>, src, <<P(")")>>)
    [] f = "arrow" -> Wrap(<<P("(")>>, src, <<P(")"), P("=>"), I("a")>>)
    [] f = "async" -> Wrap(<<K("async"), P("(")>>, src, <<P(")")>>)

DoParseCover ==
  \E f \in CoverForms \ {"parameters"} :
    Parsed(f, Call("Parse", <<NewParser(CoverText(f)), ExpressionMode>>))

\* parseParameters after its `(`: no recover stands between the caller and a
\* panic of the parameter parser
DoParseParameters ==
  LET r == Call("parseParametersTail", <<NewParser(src \o <<P(")")>>)>>)
  IN Parsed("parameters",
            [outcome |-> IF r.p.err = "none" THEN "return" ELSE "panic",
             n |-> r.n, err |-> IF r.p.err = "none" THEN "nil" ELSE r.p.err,
             p |-> r.p])

NextCover == DoParseCover \/ DoParseParameters

SpecCover == InitCover /\ [][NextCover]_vars

\* C3: no AST returned by Parse contains a temporal node at any depth; this
\* covers `async ( E )` not followed by `=>`, `async ( )` included, and a
\* parenthesised expression with the temporal node under an operator.
C3_NoTemporalLeak ==
  \A f \in CoverForms \ {"parameters"} :
    Returned(out[f]) => ~HasTemporal(out[f].n)

\* C4: for a parameter list P, the arrow function parsed from `( P ) => a`
\* has the FormalParameters the parameter parser gives for P, whatever the
\* nesting of the patterns of P.
C4_ArrowParamsEqualParameters ==
  (/\ src \in ParameterLists
   /\ out["arrow"].outcome # "pending"
   /\ out["parameters"].outcome # "pending") =>
    IF out["parameters"].outcome = "return"
      THEN /\ Returned(out["arrow"])
           /\ out["arrow"].n.type = "FunctionExpression"
           /\ out["arrow"].n.Params = out["parameters"].n
    ELSE ~Returned(out["arrow"])

\* E holds a production that is legal only in an arrow head: it is empty or
\* has a rest element
ArrowOnly(e) == e = <<>> \/ \E i \in 1..Len(e) : e[i].type = "..."

\* C6: `( E )` with no `=>` after it is a syntax error when E holds an
\* arrow-only production, and otherwise, E being an expression, the
\* ParenthesizedExpression of E; shorthand properties and elisions in E
\* change nothing.
C6_ParenthesizedOrSyntaxError ==
  (out["paren"].outcome # "pending" /\ out["plain"].outcome # "pending") =>
    IF ArrowOnly(src)
      THEN out["paren"].outcome = "return" /\ out["paren"].err = "syntax"
    ELSE (Returned(out["plain"]) /\ NextToken(out["plain"].p) = TokenNone) =>
           /\ Returned(out["paren"])
           /\ out["paren"].n =
                [type |-> "ParenthesizedExpression", Expression |-> out["plain"].n]

(***************************************************************************)
(* SpecOperators: parseExpression at comma precedence over operator         *)
(* sequences.  An input is x1 o1 x2 ... on xn+1 with identifiers xi, at     *)
(* most MaxOps operators taken from every level of the table, and every     *)
(* `:` closing a `?`.                                                       *)
(***************************************************************************)
MaxOps == 3

OperatorAlphabet ==
  {"=", "+=", "?", ":", "||", "&&", "|", "^", "&", "==", "<", "<<", "+", "*", "**"}

OperandNames == <<"a", "b", "c", "d", "e", "f">>

\* every prefix has at least as many `?` as `:`, the whole as many
Balanced(ops) ==
  LET count(y, n) == Cardinality({i \in 1..n : ops[i] = y})
  IN /\ \A n \in 1..Len(ops) : count(":", n) <= count("?", n)
     /\ count(":", Len(ops)) = count("?", Len(ops))

OperatorInputs ==
  {[i \in 1..(2 * Len(ops) + 1) |->
      IF i % 2 = 1 THEN I(OperandNames[(i + 1) \div 2]) ELSE P(ops[i \div 2])] :
     ops \in {o \in SeqsUpTo(OperatorAlphabet, MaxOps) : Balanced(o)}}

InitOperators ==
  /\ src \in OperatorInputs
  /\ mode = ExpressionMode
  /\ p = NewParser(src)
  /\ out = [f \in {"operators"} |-> Pending]
  /\ pc = "ready"

DoParseOperators ==
  Parsed("operators", Call("Parse", <<NewParser(src), ExpressionMode>>))

NextOperators == DoParseOperators

SpecOperators == InitOperators /\ [][NextOperators]_vars

\* the levels of the precedence table, lowest first
TableLevel(y) ==
  CASE y \in DOMAIN assignOps -> 1
    [] y = "?" -> 2
    [] y \in {"||", "??"} -> 3
    [] y = "&&" -> 4
    [] y = "|" -> 5
    [] y = "^" -> 6
    [] y = "&" -> 7
    [] y \in {"==", "!=", "===", "!=="} -> 8
    [] y \in {"<", ">", "<=", ">=", "instanceof", "in"} -> 9
    [] y \in {"<<", ">>", ">>>"} -> 10
    [] y \in {"+", "-"} -> 11
    [] y \in {"*", "/", "%"} -> 12
    [] y = "**" -> 13

Min(xs) == CHOOSE x \in xs : \A y \in xs : x <= y

Max(xs) == CHOOSE x \in xs : \A y \in xs : y <= x

\* the tree the table prescribes for x1 o1 x2 ...: the root is the first
\* assignment or `?` if there is one, its right side taking all that follows
\* (up to the `:` of a `?`); among binary operators alone it is the last
\* operator of the lowest level, the first if that level is `**`
RECURSIVE TableTree(_)
TableTree(s) ==
  LET n == Len(s)
      part(a, b) == TableTree(SubSeq(s, a, b))
      low == {i \in 1..n : s[i].type = "?" \/ s[i].type \in DOMAIN assignOps}
      ops == {i \in 1..n : i % 2 = 0}
      level == Min({TableLevel(s[i].type) : i \in ops})
      lowest == {i \in ops : TableLevel(s[i].type) = level}
      open(i, j) == Cardinality({k \in (i + 1)..(j - 1) : s[k].type = "?"})
                      - Cardinality({k \in (i + 1)..(j - 1) : s[k].type = ":"})
  IN IF n = 1 THEN Identifier(s[1].lit)
     ELSE IF low # {}
       THEN LET i == Min(low)
                j == Min({k \in (i + 1)..n : s[k].type = ":" /\ open(i, k) = 0})
            IN IF s[i].type = "?"
                 THEN [type |-> "ConditionalExpression", Test |-> part(1, i - 1),
                       Consequent |-> part(i + 1, j - 1), Alternate |-> part(j + 1, n)]
               ELSE [type |-> "AssignmentExpression", Operator |-> assignOps[s[i].type],
                     Left |-> part(1, i - 1), Right |-> part(i + 1, n)]
     ELSE LET i == IF level = TableLevel("**") THEN Min(lowest) ELSE Max(lowest)
          IN [type |-> "BinaryExpression", Operator |-> binaryOps[s[i].type].op,
              Left |-> part(1, i - 1), Right |-> part(i + 1, n)]

\* C5: parseExpression at comma precedence builds the tree of the precedence
\* table: a higher level binds tighter, one level groups left to right, and
\* assignment, conditional and `**` group right to left.
C5_PrecedenceTree ==
  out["operators"].outcome # "pending" =>
    Returned(out["operators"]) /\ out["operators"].n = TableTree(src)

(***************************************************************************)
(* The lexer at rune level (lexer/lexer.go, lexer/scanner.go): the white   *)
(* space, line terminators and comments between tokens.  A source text is  *)
(* a sequence of runes; the scanner's position is the number of runes      *)
(* read.  The lexer state is                                               *)
(*   runes, at, eof  the rune scanner: its input, its position and whether *)
(*                   a read has hit the end of the input                   *)
(*   col, row        Scanner.col and Scanner.row                           *)
(*   newLine         Lexer.newLine                                         *)
(*   lastToken       Lexer.lastToken                                       *)
(*   err             "none", or the kind of the panic that unwinds         *)
(* The runes of the inputs are `a`, space, line feed, `/`, `*`, `<`, `>`,  *)
(* `=`, `?` and `.`; the cases of consumeNextToken for other runes are     *)
(* left out.                                                               *)
(***************************************************************************)
MaxRunes == 6

EOFRune == "EOF"

lineterms == {"\n", "\r"}

whitespace == {" ", "\t"}

isWhiteSpace(r) == r \in whitespace

isLineTerm(r) == r \in lineterms

\* of the runes of the inputs only `a` is a letter
isIdentifierStart(r) == r \in {"$", "_", "a"}

isIdentifierContinue(r) == r \in {"$", "_", "a"}

NewLexer(runes) ==
  [runes |-> runes, at |-> 0, eof |-> FALSE, col |-> 1, row |-> 1,
   newLine |-> FALSE, lastToken |-> TokenNone, err |-> "none"]

\* Scanner.Location of the rune scanner
RuneLocation(l) == [Column |-> IF l.col < 0 THEN 1 ELSE l.col, Row |-> l.row]


RECURSIVE LexCall(_, _)
\* Scanner.Read: a line terminator flips the sign of col
Read(l) ==
  IF l.at < Len(l.runes)
    THEN LET r == l.runes[l.at + 1]
         IN [l |-> IF isLineTerm(r)
                     THEN [l EXCEPT !.at = l.at + 1, !.row = l.row + 1,
                                    !.col = IF l.col > 0 THEN -l.col
                                            ELSE IF l.col < 0 THEN -1
                                            ELSE l.col]
                     ELSE [l EXCEPT !.at = l.at + 1,
                                    !.col = (IF l.col < 0 THEN 1 ELSE l.col) + 1],
             r |-> r]
    ELSE [l |-> [l EXCEPT !.eof = TRUE], r |-> EOFRune]

\* Scanner.Unread: every call follows a Read, so UnreadRune does not fail;
\* once a Read has hit the end of the input the reader is left alone
Unread(l) ==
  LET u == IF l.eof THEN l ELSE [l EXCEPT !.at = l.at - 1]
  IN IF u.col < 0 THEN [u EXCEPT !.col = -u.col, !.row = u.row - 1]
     ELSE [u EXCEPT !.col = u.col - 1]

RECURSIVE consumeMultiLineComment(_)
consumeMultiLineComment(l) ==
  LET r1 == LexCall("Read", <<l>>)
  IN CASE r1.r = "*" ->
            LET r2 == LexCall("Read", <<r1.l>>)
            IN CASE r2.r = "/" -> r2.l
                 [] r2.r = EOFRune -> [r2.l EXCEPT !.err = "syntax"]
                 [] OTHER -> LexCall("consumeMultiLineComment", <<r2.l>>)
       [] r1.r = EOFRune -> [r1.l EXCEPT !.err = "syntax"]
       [] OTHER -> LexCall("consumeMultiLineComment", <<r1.l>>)

RECURSIVE consumeSingleLineComment(_)
consumeSingleLineComment(l) ==
  LET r1 == LexCall("Read", <<l>>)
  IN IF isLineTerm(r1.r) \/ r1.r = EOFRune THEN r1.l
     ELSE LexCall("consumeSingleLineComment", <<r1.l>>)

RECURSIVE consumeIdentifierPart(_, _, _)
\* the loop of consumeIdentifier; no name over the runes of the inputs is a
\* keyword
consumeIdentifierPart(l, typ, lit) ==
  LET r1 == LexCall("Read", <<l>>)
  IN IF ~isIdentifierContinue(r1.r)
       THEN [l |-> LexCall("Unread", <<r1.l>>), t |-> Token(typ, lit, FALSE)]
       ELSE LexCall("consumeIdentifierPart", <<r1.l, typ, Append(lit, r1.r)>>)

consumeIdentifier(l, typ) ==
  LET r1 == LexCall("Read", <<l>>)
  IN IF ~isIdentifierStart(r1.r)
       THEN [l |-> [r1.l EXCEPT !.err = "syntax"], t |-> TokenNone]
       ELSE LexCall("consumeIdentifierPart", <<r1.l, typ, <<r1.r>>>>)

RECURSIVE consumeNextToken(_)
consumeNextToken(l) ==
  LET r1 == LexCall("Read", <<l>>)
  IN CASE isLineTerm(r1.r) ->
            LexCall("consumeNextToken", <<[r1.l EXCEPT !.newLine = TRUE]>>)
       [] isWhiteSpace(r1.r) -> LexCall("consumeNextToken", <<r1.l>>)
       [] r1.r = "*" ->
            LET r2 == LexCall("Read", <<r1.l>>)
            IN CASE r2.r = "*" ->
                      LET r3 == LexCall("Read", <<r2.l>>)
                      IN IF r3.r = "="
                           THEN [l |-> r3.l, t |-> P("**=")]
                           ELSE [l |-> LexCall("Unread", <<r3.l>>), t |-> P("**")]
                 [] r2.r = "=" -> [l |-> r2.l, t |-> P("*=")]
                 [] OTHER -> [l |-> LexCall("Unread", <<r2.l>>), t |-> P("*")]
       [] r1.r = "/" ->
            LET r2 == LexCall("Read", <<r1.l>>)
            IN CASE r2.r = "/" ->
                      LexCall("consumeNextToken",
                              <<LexCall("consumeSingleLineComment", <<r2.l>>)>>)
                 [] r2.r = "*" ->
                      LET c == LexCall("consumeMultiLineComment", <<r2.l>>)
                      IN IF c.err # "none" THEN [l |-> c, t |-> TokenNone]
                         ELSE LexCall("consumeNextToken", <<c>>)
                 [] r2.r = "=" -> [l |-> r2.l, t |-> P("/=")]
                 [] OTHER -> [l |-> LexCall("Unread", <<r2.l>>), t |-> P("/")]
       [] r1.r = "." ->
            LET r2 == LexCall("Read", <<r1.l>>)
            IN IF r2.r = "."
                 THEN LET r3 == LexCall("Read", <<r2.l>>)
                      IN IF r3.r = "." THEN [l |-> r3.l, t |-> P("...")]
                         ELSE [l |-> [r3.l EXCEPT !.err = "syntax"],
                               t |-> TokenNone]
                 ELSE [l |-> LexCall("Unread", <<r2.l>>), t |-> P(".")]
       [] r1.r \in {"<", ">"} ->
            LET r2 == LexCall("Read", <<r1.l>>)
                shift == IF r1.r = "<" THEN "<<" ELSE ">>"
            IN CASE r2.r = r1.r ->
                      LET r3 == LexCall("Read", <<r2.l>>)
                      IN CASE r3.r = r1.r ->
                                LET r4 == LexCall("Read", <<r3.l>>)
                                IN IF r4.r = "="
                                     THEN [l |-> r4.l, t |-> P(">>>=")]
                                     ELSE [l |-> LexCall("Unread", <<r4.l>>), t |-> P(">>>")]
                           [] r3.r = "=" -> [l |-> r3.l, t |-> P(shift \o "=")]
                           [] OTHER -> [l |-> LexCall("Unread", <<r3.l>>), t |-> P(shift)]
                 [] r2.r = "=" -> [l |-> r2.l, t |-> P(r1.r \o "=")]
                 [] OTHER -> [l |-> LexCall("Unread", <<r2.l>>), t |-> P(r1.r)]
       [] r1.r = "=" ->
            LET r2 == LexCall("Read", <<r1.l>>)
            IN CASE r2.r = "=" ->
                      LET r3 == LexCall("Read", <<r2.l>>)
                      IN IF r3.r = "=" THEN [l |-> r3.l, t |-> P("===")]
                         ELSE [l |-> LexCall("Unread", <<r3.l>>), t |-> P("==")]
                 [] r2.r = ">" -> [l |-> r2.l, t |-> P("=>")]
                 [] OTHER -> [l |-> LexCall("Unread", <<r2.l>>), t |-> P("=")]
       [] r1.r = "?" ->
            LET r2 == LexCall("Read", <<r1.l>>)
            IN IF r2.r = "?"
                 THEN LET r3 == LexCall("Read", <<r2.l>>)
                      IN IF r3.r = "=" THEN [l |-> r3.l, t |-> P("??=")]
                         ELSE [l |-> LexCall("Unread", <<r3.l>>), t |-> P("??")]
                 ELSE [l |-> LexCall("Unread", <<r2.l>>), t |-> P("?")]
       [] r1.r = EOFRune -> [l |-> r1.l, t |-> TokenNone]
       [] OTHER ->
            IF isIdentifierStart(r1.r)
              THEN LexCall("consumeIdentifier", <<LexCall("Unread", <<r1.l>>), "ident">>)
              ELSE [l |-> [r1.l EXCEPT !.err = "syntax"], t |-> TokenNone]

\* Lexer.Lex at rune level
LexRunes(l) ==
  LET c == LexCall("consumeNextToken", <<l>>)
  IN IF c.l.err # "none" THEN c
     ELSE IF c.l.newLine
       THEN [l |-> [c.l EXCEPT !.newLine = FALSE, !.lastToken = NL(c.t)],
             t |-> NL(c.t)]
       ELSE [l |-> [c.l EXCEPT !.lastToken = c.t], t |-> c.t]

(***************************************************************************)
(* SpecLex: a caller lexes a source text token by token, up to the end of  *)
(* the input or a panic.  out is the sequence of the tokens returned, each *)
(* with the scanner's position before (from) and after (to) its Lex.       *)
(***************************************************************************)
RuneAlphabet == {"a", " ", "\n", "/", "*"}

RuneInputs == SeqsUpTo(RuneAlphabet, MaxRunes)

InitLex ==
  /\ src \in RuneInputs
  /\ mode = "lex"
  /\ p = NewLexer(src)
  /\ out = <<>>
  /\ pc = "lexing"

DoLex ==
  /\ pc = "lexing"
  /\ LET x == LexCall("LexRunes", <<p>>)
     IN /\ p' = x.l
        /\ IF x.l.err # "none"
             THEN out' = out /\ pc' = "panicked"
             ELSE /\ out' = Append(out, [t |-> x.t, from |-> p.at,
                                         to |-> x.l.at])
                  /\ pc' = IF x.t.type = "none" THEN "done" ELSE "lexing"
  /\ UNCHANGED <<src, mode>>

NextLex == DoLex

SpecLex == InitLex /\ [][NextLex]_vars

\* a line terminator among the runes a Lex call read: over the runes of the
\* inputs no token holds one, so it lies in the white space and comments
\* before the token
LineTermRead(i) ==
  \E j \in (out[i].from + 1)..out[i].to : isLineTerm(src[j])

\* C8: every token Lex returns has its NewLine flag set if and only if a
\* line terminator occurred in the white space and comments between the
\* previous token and this one, a line terminator that ends a `//` comment
\* or lies inside a `/* */` comment included; no flag carries over to a
\* later token.
C8_NewLineFlag ==
  \A i \in 1..Len(out) : out[i].t.nl <=> LineTermRead(i)

(***************************************************************************)
(* Lexer.ReLex at rune level (lexer/lexer.go): the last token, a `/` or a  *)
(* `/=`, is taken as the start of a regular expression literal.  A regex   *)
(* token carries its Pattern and Flags next to the token.                  *)
(***************************************************************************)
\* Token.Source, for the tokens of the rune-level lexer
Source(t) ==
  CASE t.type = "/" -> <<"/">>
    [] t.type = "/=" -> <<"/", "=">>
    [] t.type = "*" -> <<"*">>
    [] t.type = "*=" -> <<"*", "=">>
    [] OTHER -> t.lit

RECURSIVE regexClass(_, _, _)
\* the loop of consumeRegex over a character class
regexClass(l, lit, pat) ==
  LET r1 == LexCall("Read", <<l>>)
  IN IF r1.r = "\\"
       THEN LET r2 == LexCall("Read", <<r1.l>>)
            IN LexCall("regexClass", <<r2.l, lit \o <<r1.r, r2.r>>, pat \o <<r1.r, r2.r>>>>)
     ELSE IF r1.r = "]"
       THEN [l |-> r1.l, lit |-> Append(lit, r1.r), pat |-> Append(pat, r1.r)]
     ELSE IF r1.r = EOFRune
       THEN [l |-> [r1.l EXCEPT !.err = "syntax"], lit |-> lit, pat |-> pat]
     ELSE LexCall("regexClass", <<r1.l, Append(lit, r1.r), Append(pat, r1.r)>>)

RECURSIVE patternLoop(_, _, _)
\* the loop of consumeRegex labelled patternLoop
patternLoop(l, lit, pat) ==
  LET r1 == LexCall("Read", <<l>>)
  IN CASE r1.r = "/" -> [l |-> r1.l, lit |-> Append(lit, r1.r), pat |-> pat]
       [] r1.r = "[" ->
            LET c == LexCall("regexClass", <<r1.l, Append(lit, r1.r), Append(pat, r1.r)>>)
            IN IF c.l.err # "none" THEN c
               ELSE LexCall("patternLoop", <<c.l, c.lit, c.pat>>)
       [] r1.r = "\\" ->
            LET r2 == LexCall("Read", <<r1.l>>)
            IN LexCall("patternLoop", <<r2.l, lit \o <<r1.r, r2.r>>,
                           IF r2.r = "/" \/ r2.r = "\\"
                             THEN Append(pat, r2.r)
                             ELSE pat \o <<"\\", r2.r>>>>)
       [] r1.r = EOFRune ->
            [l |-> [r1.l EXCEPT !.err = "syntax"], lit |-> lit, pat |-> pat]
       [] OTHER -> LexCall("patternLoop", <<r1.l, Append(lit, r1.r), Append(pat, r1.r)>>)

RECURSIVE flagLoop(_, _, _)
\* the flag loop of consumeRegex
flagLoop(l, lit, flg) ==
  LET r1 == LexCall("Read", <<l>>)
  IN IF ~isIdentifierContinue(r1.r)
       THEN [l |-> LexCall("Unread", <<r1.l>>), lit |-> lit, flg |-> flg]
       ELSE LexCall("flagLoop", <<r1.l, Append(lit, r1.r), Append(flg, r1.r)>>)

ReToken(l, t, pat, flg) == [l |-> l, t |-> t, Pattern |-> pat, Flags |-> flg]

\* consumeRegex without its flag loop
consumeRegexNoFlags(l, t) ==
  LET b == LexCall("patternLoop", <<l, Source(t), Tail(Source(t))>>)
  IN IF b.l.err # "none" THEN ReToken(b.l, TokenNone, <<>>, <<>>)
     ELSE ReToken(b.l, Token("regexp", b.lit, FALSE), b.pat, <<>>)

\* Lexer.consumeRegex at rune level
consumeRegexRunes(l, t) ==
  LET b == LexCall("patternLoop", <<l, Source(t), Tail(Source(t))>>)
  IN IF b.l.err # "none" THEN ReToken(b.l, TokenNone, <<>>, <<>>)
     ELSE LET f == LexCall("flagLoop", <<b.l, b.lit, <<>>>>)
          IN ReToken(f.l, Token("regexp", f.lit, FALSE), b.pat, f.flg)

\* Lexer.ReLex at rune level
ReLexRunes(l) ==
  LET t == LexCall("consumeRegexRunes", <<l, l.lastToken>>)
  IN IF t.l.err # "none" THEN t
     ELSE [t EXCEPT !.l = [t.l EXCEPT !.lastToken = t.t]]

\* the functions of the lexer and of its rune scanner, by name
LexCall(f, a) ==
  CASE f = "Read" -> Read(a[1])
    [] f = "Unread" -> Unread(a[1])
    [] f = "consumeMultiLineComment" -> consumeMultiLineComment(a[1])
    [] f = "consumeSingleLineComment" -> consumeSingleLineComment(a[1])
    [] f = "consumeIdentifierPart" -> consumeIdentifierPart(a[1], a[2], a[3])
    [] f = "consumeIdentifier" -> consumeIdentifier(a[1], a[2])
    [] f = "consumeNextToken" -> consumeNextToken(a[1])
    [] f = "LexRunes" -> LexRunes(a[1])
    [] f = "regexClass" -> regexClass(a[1], a[2], a[3])
    [] f = "patternLoop" -> patternLoop(a[1], a[2], a[3])
    [] f = "flagLoop" -> flagLoop(a[1], a[2], a[3])
    [] f = "consumeRegexRunes" -> consumeRegexRunes(a[1], a[2])
    [] f = "ReLexRunes" -> ReLexRunes(a[1])

(***************************************************************************)
(* SpecReLex: a caller lexes the first token of a source text that starts  *)
(* with `/` or `/=` and relexes it as a regular expression.                *)
(***************************************************************************)
MaxRegexRunes == 6

RegexAlphabet == {"/", "[", "]", "\\", "a"}

\* `//` starts a comment, not a token
RegexInputs ==
  {<<"/">> \o s : s \in {x \in SeqsUpTo(RegexAlphabet, MaxRegexRunes) :
                           Len(x) = 0 \/ x[1] # "/"}}
    \cup {<<"/", "=">> \o s : s \in SeqsUpTo(RegexAlphabet, MaxRegexRunes)}

InitReLex ==
  /\ src \in RegexInputs
  /\ mode = "relex"
  /\ p = NewLexer(src)
  /\ out = <<>>
  /\ pc = "lexing"

DoLexSlash == out = <<>> /\ mode = "relex" /\ DoLex

DoReLex ==
  /\ pc = "lexing"
  /\ Len(out) = 1
  /\ out[1].t.type \in {"/", "/="}
  /\ LET x == LexCall("ReLexRunes", <<p>>)
     IN /\ p' = x.l
        /\ IF x.l.err # "none"
             THEN out' = out /\ pc' = "panicked"
             ELSE /\ out' = Append(out, [t |-> x.t, from |-> p.at,
                                         to |-> x.l.at, Pattern |-> x.Pattern,
                                         Flags |-> x.Flags])
                  /\ pc' = "relexed"
  /\ UNCHANGED <<src, mode>>

NextReLex == DoLexSlash \/ DoReLex

SpecReLex == InitReLex /\ [][NextReLex]_vars

RECURSIVE RegexClose(_, _, _)
\* the position from i on of the first `/` of s that is neither inside a
\* character class nor escaped by a `\`, 0 if there is none
RegexClose(s, i, inClass) ==
  IF i > Len(s) THEN 0
  ELSE IF s[i] = "\\" THEN RegexClose(s, i + 2, inClass)
  ELSE IF inClass THEN RegexClose(s, i + 1, s[i] # "]")
  ELSE IF s[i] = "/" THEN i
  ELSE RegexClose(s, i + 1, s[i] = "[")

\* the end of the identifier-continue runes of s that directly follow e
FlagsEnd(s, e) ==
  CHOOSE f \in e..Len(s) :
    /\ \A j \in (e + 1)..f : isIdentifierContinue(s[j])
    /\ f < Len(s) => ~isIdentifierContinue(s[f + 1])

ClassExample == <<"/", "[", "\\", "]", "/", "]", "/">>

\* C11: relexing from a `/` or `/=` token gives a regex token whose literal
\* is the source text from the opening `/` up to the first `/` that is
\* neither inside a `[...]` class nor escaped by a `\`, followed by the
\* identifier-continue runes after it, which are the flags; without such a
\* `/` it is a syntax error; `/[\]/]/` has the pattern `[\]/]`.
C11_RegexToken ==
  LET e == RegexClose(src, out[1].to + 1, FALSE)
      f == FlagsEnd(src, e)
  IN /\ pc = "relexed" =>
          /\ e > 0
          /\ out[2].t = Token("regexp", SubSeq(src, 1, f), FALSE)
          /\ out[2].Flags = SubSeq(src, e + 1, f)
          /\ out[2].to = f
          /\ src = ClassExample =>
               out[2].Pattern = <<"[", "\\", "]", "/", "]">>
     /\ pc = "panicked" => e = 0 /\ p.err = "syntax"

C11_Witness ==
  pc = "relexed" /\ src = ClassExample /\ out[2].t.lit = ClassExample

(***************************************************************************)
(* SpecItems: Parse in script mode and in module mode over source texts    *)
(* made of one or two statements or module items of a given family.        *)
(***************************************************************************)
MaxSpecifiers == 4

\* import declarations: a binding part, a brace list and a `from` part,
\* each of them well-formed or not
ImportHeads ==
  {<<>>, <<I("a")>>, <<I("a"), P(",")>>, <<P("*"), K("as"), I("a")>>,
   <<I("a"), P(","), P("*"), K("as"), I("b")>>, <<P("*"), I("a")>>,
   <<I("a"), I("b")>>, <<P(",")>>}

ImportLists ==
  {<<>>} \cup
  {<<P("{")>> \o s \o <<P("}")>> :
     s \in SeqsUpTo({I("a"), I("b"), K("as"), P(",")}, MaxSpecifiers)}

ImportTails == {<<>>, <<K("from")>>, <<S("m")>>, <<K("from"), S("m")>>}

ImportInputs ==
  {<<K("import")>> \o h \o l \o t :
     h \in ImportHeads, l \in ImportLists, t \in ImportTails}

\* `return` and `throw` followed by up to MaxAfter tokens, newline-led or not
MaxAfter == 2

AfterAlphabet ==
  {I("a"), NL(I("a")), P(";"), NL(P(";")), P("}"), NL(P("}"))}

JumpInputs ==
  {<<k>> \o x : k \in {K("return"), K("throw")},
                x \in SeqsUpTo(AfterAlphabet, MaxAfter)}

\* `a` followed by `++`, `--` and `b`, newline-led or not
UpdateInputs ==
  {<<I("a")>> \o x :
     x \in SeqsUpTo({P("++"), NL(P("++")), P("--"), NL(P("--")), I("b"),
                     NL(I("b")), P(";")}, MaxAfter)}

\* `try { }` followed by a handler, a finalizer, both or neither
CatchPart == <<K("catch"), P("{"), P("}")>>

CatchParamPart == <<K("catch"), P("("), I("a"), P(")"), P("{"), P("}")>>

FinallyPart == <<K("finally"), P("{"), P("}")>>

TryInputs ==
  {<<K("try"), P("{"), P("}")>> \o c \o f \o x :
     c \in {<<>>, CatchPart, CatchParamPart},
     f \in {<<>>, FinallyPart},
     x \in {<<>>, <<P(";")>>, <<NL(I("a"))>>, <<P("}")>>}}

\* `async` followed by a function on the same line, on the next line, or by
\* something else
FunctionPart(kw) == <<kw, I("f"), P("("), P(")"), P("{"), P("}")>>

AsyncInputs ==
  {<<K("async")>> \o x :
     x \in {FunctionPart(K("function")), FunctionPart(NL(K("function"))),
            <<>>, <<P(";")>>, <<P("("), P(")"), P(";")>>,
            <<I("a"), P("=>"), I("a")>>, <<P("="), I("a")>>,
            <<P("("), I("a"), P(")"), P("=>"), I("a"), P(";")>>}}

ItemInputs ==
  ImportInputs \cup JumpInputs \cup UpdateInputs \cup TryInputs
    \cup AsyncInputs

ItemForms == ParseModes \cup {"statement"}

InitItems ==
  /\ src \in ItemInputs
  /\ mode = "none"
  /\ p = NewParser(src)
  /\ out = [f \in ItemForms |-> Pending]
  /\ pc = "ready"

\* parseStatement on its own: no recover stands between it and a panic
DoParseStatement ==
  LET r == Call("parseStatement", <<NewParser(src)>>)
  IN Parsed("statement",
            [outcome |-> IF r.p.err = "none" THEN "return" ELSE "panic",
             n |-> r.n, err |-> IF r.p.err = "none" THEN "nil" ELSE r.p.err,
             p |-> r.p])

NextItems == DoParseScript \/ DoParseModule \/ DoParseStatement

SpecItems == InitItems /\ [][NextItems]_vars

\* a token that names a binding in an import declaration
IsName(t) == t.type \in {"ident", "as", "from"}

RECURSIVE Specifiers(_)
\* the specifiers `name` or `name as binding` written in s, separated by `,`
\* (a `,` may follow the last one); ok is FALSE when s is anything else
Specifiers(s) ==
  IF Len(s) = 0 THEN [ok |-> TRUE, items |-> <<>>]
  ELSE IF ~IsName(s[1]) THEN [ok |-> FALSE, items |-> <<>>]
  ELSE LET withAs == Len(s) >= 3 /\ s[2].type = "as" /\ IsName(s[3])
           item == [Identifier |-> s[1].lit,
                    AsBinding |-> IF withAs THEN s[3].lit ELSE <<>>]
           rest == SubSeq(s, IF withAs THEN 4 ELSE 2, Len(s))
           more == Specifiers(Tail(rest))
       IN IF Len(rest) = 0 THEN [ok |-> TRUE, items |-> <<item>>]
          ELSE IF rest[1].type # "," THEN [ok |-> FALSE, items |-> <<>>]
          ELSE [ok |-> more.ok, items |-> <<item>> \o more.items]

DefaultForm(b) == Len(b) = 1 /\ IsName(b[1])

NameSpaceForm(b) ==
  Len(b) = 3 /\ b[1].type = "*" /\ b[2].type = "as" /\ IsName(b[3])

NamedForm(b) ==
  /\ Len(b) >= 2
  /\ b[1].type = "{"
  /\ b[Len(b)].type = "}"
  /\ Specifiers(SubSeq(b, 2, Len(b) - 1)).ok

\* the binding forms of an import declaration
BindingForm(b) ==
  \/ DefaultForm(b)
  \/ NameSpaceForm(b)
  \/ NamedForm(b)
  \/ /\ Len(b) >= 3
     /\ IsName(b[1])
     /\ b[2].type = ","
     /\ NameSpaceForm(SubSeq(b, 3, Len(b))) \/ NamedForm(SubSeq(b, 3, Len(b)))

\* s is `import "module"` or `import` binding form `from "module"`
ImportForm(s) ==
  \/ Len(s) = 2 /\ s[2].type = "string"
  \/ /\ Len(s) >= 4
     /\ s[Len(s) - 1].type = "from"
     /\ s[Len(s)].type = "string"
     /\ BindingForm(SubSeq(s, 2, Len(s) - 2))

\* the specifiers between the braces of s
WrittenSpecifiers(s) ==
  IF \E i \in 1..Len(s) : s[i].type = "{"
    THEN LET i == CHOOSE i \in 1..Len(s) : s[i].type = "{"
             j == CHOOSE j \in 1..Len(s) : s[j].type = "}"
         IN Specifiers(SubSeq(s, i + 1, j - 1)).items
    ELSE <<>>

\* C12: in module mode an import declaration is accepted only as a module
\* string alone or as default, default + namespace, default + named list,
\* namespace or named list followed by `from` and a string; in the braces
\* every specifier is `name` or `name as binding` and specifiers are
\* separated by `,`; everything else is a syntax error, and on success
\* NamedImports holds every written specifier once, in source order.
C12_ImportForms ==
  (src \in ImportInputs /\ out[ModuleMode].outcome # "pending") =>
    /\ out[ModuleMode].outcome = "return"
    /\ ImportForm(src) => /\ Returned(out[ModuleMode])
                          /\ out[ModuleMode].n.Body[1].NamedImports
                               = WrittenSpecifiers(src)
    /\ ~ImportForm(src) => out[ModuleMode].err = "syntax"

\* the token after the first token of the source text
TokenAfterFirst == IF Len(src) >= 2 THEN src[2] ELSE TokenNone

\* C13: after `return` the argument is omitted and the statement completes
\* successfully exactly when the next token is newline-led, `;`, `}` or the
\* end of the input; in every other case an expression is parsed as the
\* argument.  After `throw` a newline-led next token is a syntax error.
C13_ReturnThrowNewline ==
  LET r == out["statement"]
      t == TokenAfterFirst
  IN (src \in JumpInputs /\ r.outcome # "pending") =>
       /\ (src[1].type = "return"
             /\ (t.nl \/ t.type \in {";", "}", "none"})) =>
            /\ Returned(r)
            /\ r.n = [type |-> "ReturnStatement", Argument |-> Nil]
       /\ (src[1].type = "return" /\ ~t.nl /\ t.type = "ident"
             /\ Returned(r)) =>
            r.n.Argument.type = "Identifier"
       /\ (src[1].type = "throw" /\ t.nl) => r.err = "syntax"

\* a postfix update of the identifier `a` in the tree n
PostfixUpdateOfA(n) ==
  \E i \in 1..Len(Nodes(n)) :
    LET x == Nodes(n)[i]
    IN /\ x.type = "UpdateExpression"
       /\ x.Operator \in {"UpdatePostIncrementOp", "UpdatePostDecrementOp"}
       /\ x.Argument = Identifier(<<"a">>)

\* C14: a `++` or `--` token whose line terminator flag is set is never
\* applied as a postfix operator to the expression before it: for `a`
\* newline `++` .. no returned tree holds a post-increment or post-decrement
\* of `a`.
C14_NoPostfixAfterNewline ==
  \A f \in ItemForms :
    (/\ src \in UpdateInputs
     /\ TokenAfterFirst.type \in {"++", "--"}
     /\ TokenAfterFirst.nl
     /\ Returned(out[f])) => ~PostfixUpdateOfA(out[f].n)

\* a try statement with neither handler nor finalizer in the tree n
BareTry(n) ==
  \E i \in 1..Len(Nodes(n)) :
    LET x == Nodes(n)[i]
    IN x.type = "TryStatement" /\ x.Handler = Nil /\ x.Finalizer = Nil

\* C15: a `try` statement is accepted only if `catch` or `finally` follows
\* its block: `try { }` followed by neither is a syntax error and no returned
\* TryStatement has both Handler and Finalizer absent.
C15_TryNeedsHandler ==
  \A f \in ItemForms :
    (src \in TryInputs /\ out[f].outcome # "pending") =>
      /\ Returned(out[f]) => ~BareTry(out[f].n)
      /\ (Len(src) = 3 \/ src[4].type \notin {"catch", "finally"}) =>
           out[f].err = "syntax"

\* C16: at statement position `async` followed by the `function` keyword
\* with no line terminator between them is parsed as an async function
\* declaration (a function declaration node with async set); `async`
\* followed by anything else, or by `function` after a line terminator,
\* starts an expression statement.
C16_AsyncFunctionDeclaration ==
  LET r == out[ScriptMode]
      t == TokenAfterFirst
  IN (src \in AsyncInputs /\ r.outcome # "pending") =>
       /\ (t.type = "function" /\ ~t.nl) =>
            /\ Returned(r)
            /\ r.n.Body[1].type = "FunctionDeclaration"
            /\ "Async" \in DOMAIN r.n.Body[1]
            /\ r.n.Body[1].Async
       /\ ((t.type # "function" \/ t.nl) /\ Returned(r)) =>
            r.n.Body[1].type = "ExpressionStatement"

(***************************************************************************)
(* SpecSpans: Parse in script mode over scripts of blocks and empty        *)
(* statements; the tree carries the spans of the script node and of the    *)
(* blocks in its body.                                                     *)
(***************************************************************************)
MaxSpanTokens == 6

RECURSIVE BraceDepth(_)
\* the number of blocks open at the end of s, -1 when a `}` closes nothing
BraceDepth(s) ==
  IF Len(s) = 0 THEN 0
  ELSE LET d == BraceDepth(SubSeq(s, 1, Len(s) - 1))
           y == s[Len(s)].type
       IN IF d < 0 THEN -1
          ELSE IF y = "{" THEN d + 1
          ELSE IF y = "}" THEN d - 1
          ELSE d

SpanInputs ==
  {s \in SeqsUpTo({P("{"), P("}"), P(";")}, MaxSpanTokens) : BraceDepth(s) = 0}

InitSpans ==
  /\ src \in SpanInputs
  /\ mode = ScriptMode
  /\ p = NewParser(src)
  /\ out = [f \in {"spans"} |-> Pending]
  /\ pc = "ready"

\* Parse in script mode; local is the script node as parseScript's deferred
\* setEnd leaves it
DoParseSpans ==
  LET r == Call("parseScriptSpan", <<NewParser(src)>>)
  IN Parsed("spans",
            IF r.p.err = "none"
              THEN [outcome |-> "return", n |-> r.n, err |-> "nil", p |-> r.p,
                    local |-> r.local]
            ELSE IF r.p.err \in {"syntax", "encoding", "parser"}
              THEN [outcome |-> "return", n |-> Nil, err |-> r.p.err,
                    p |-> r.p, local |-> Nil]
            ELSE [outcome |-> r.p.err, n |-> Nil, err |-> "nil", p |-> r.p,
                  local |-> Nil])

NextSpans == DoParseSpans

SpecSpans == InitSpans /\ [][NextSpans]_vars

\* location a is not behind location b
NotBehind(a, b) == a.Row < b.Row \/ (a.Row = b.Row /\ a.Column <= b.Column)

\* C17: in every tree Parse returns each node's span has start <= end and
\* lies inside the span of its parent; the end that a production records
\* through its deferred setEnd is present in the node it returns.
C17_SpanContainment ==
  Returned(out["spans"]) =>
    LET s == out["spans"].n
    IN /\ NotBehind(s.Start, s.End)
       /\ s.End = out["spans"].local.End
       /\ \A i \in 1..Len(s.node.Body) :
            LET c == s.node.Body[i]
            IN c.node.type = "BlockStatement" =>
                 /\ NotBehind(s.Start, c.Start)
                 /\ NotBehind(c.Start, c.End)
                 /\ NotBehind(c.End, s.End)

(***************************************************************************)
(* SpecLookahead: PeekAt and Scan in any order over one token sequence;    *)
(* out records the last operation, its argument and result, and the tokens *)
(* Scan has returned so far.                                               *)
(***************************************************************************)
MaxLookahead == 2

LookaheadAlphabet == {I("a"), I("b"), P(";"), NL(I("a"))}

InitLookahead ==
  /\ src \in SeqsUpTo(LookaheadAlphabet, MaxScanLen)
  /\ mode = "lookahead"
  /\ p = NewParser(src)
  /\ out = [op |-> "none", i |-> 0, t |-> TokenNone, before |-> NewParser(src),
            scans |-> <<>>]
  /\ pc = "run"

\* Scan, up to one call past the end of the input
DoScanNext ==
  /\ pc = "run"
  /\ Len(out.scans) <= Len(src)
  /\ LET r == Scan(p)
     IN /\ p' = r.p
        /\ out' = [op |-> "Scan", i |-> 0, t |-> r.t, before |-> p,
                   scans |-> Append(out.scans, r.t)]
  /\ UNCHANGED <<src, mode, pc>>

DoPeekAhead ==
  /\ pc = "run"
  /\ \E i \in 0..MaxLookahead :
       LET r == PeekAt(p, i)
       IN /\ p' = r.p
          /\ out' = [out EXCEPT !.op = "PeekAt", !.i = i, !.t = r.t,
                                !.before = p]
  /\ UNCHANGED <<src, mode, pc>>

NextLookahead == DoScanNext \/ DoPeekAhead

SpecLookahead == InitLookahead /\ [][NextLookahead]_vars

\* the k-th token Lex produces for the source text
LexOutput(k) == IF k <= Len(src) THEN src[k] ELSE TokenNone

\* C18: for any interleaving of PeekAt(i) and Scan without ReScan the
\* tokens Scan returns are the tokens Lex produces, in order, none dropped,
\* duplicated or reordered; PeekAt(i) removes nothing and returns the token
\* the (i+1)-th following Scan returns.
C18_LookaheadFifo ==
  /\ \A k \in 1..Len(out.scans) : out.scans[k] = LexOutput(k)
  /\ out.op = "PeekAt" =>
       /\ out.t = LexOutput(Len(out.scans) + out.i + 1)
       /\ Consumed(p) = Consumed(out.before)
       /\ NextToken(p) = NextToken(out.before)
  /\ p.err = "none"

\* C18 witness: Scan has returned the second token out of a buffer that
\* PeekAt filled beyond it
C18_Witness ==
  /\ out.op = "Scan"
  /\ Len(out.scans) = 2
  /\ Len(src) >= 2
  /\ out.scans = SubSeq(src, 1, 2)
  /\ Len(out.before.last) = 2
  /\ Len(p.last) = 1

(***************************************************************************)
(* SpecRunes: a caller of the rune scanner reads runes and unreads the     *)
(* rune it has just read.  out records the last operation, the rune of the *)
(* last Read, the scanner before that Read and the number of Reads.        *)
(***************************************************************************)
MaxLineRunes == 4

MaxReads == 7

InitRunes ==
  /\ src \in SeqsUpTo({"a", "\n"}, MaxLineRunes)
  /\ mode = "runes"
  /\ p = NewLexer(src)
  /\ out = [op |-> "none", r |-> EOFRune, before |-> NewLexer(src),
            reread |-> EOFRune, reads |-> 0]
  /\ pc = "ready"

DoRead ==
  /\ pc \in {"ready", "unread"}
  /\ out.reads < MaxReads
  /\ LET x == Read(p)
     IN /\ p' = x.l
        /\ out' = [op |-> "Read", r |-> x.r, before |-> p,
                   reread |-> IF pc = "unread" THEN out.r ELSE x.r,
                   reads |-> out.reads + 1]
  /\ pc' = "ready"
  /\ UNCHANGED <<src, mode>>

\* Unread directly after a Read
DoUnread ==
  /\ pc = "ready"
  /\ out.op = "Read"
  /\ p' = Unread(p)
  /\ out' = [out EXCEPT !.op = "Unread"]
  /\ pc' = "unread"
  /\ UNCHANGED <<src, mode>>

NextRunes == DoRead \/ DoUnread

SpecRunes == InitRunes /\ [][NextRunes]_vars

\* C19: for every state of the rune scanner and every next input (an
\* ordinary rune, a line terminator, a second line terminator in a row, the
\* end of the input) Read followed by one Unread leaves Location as it was
\* before the Read, and the next Read returns the same code point again.
C19_ReadUnread ==
  /\ out.op = "Unread" => RuneLocation(p) = RuneLocation(out.before)
  /\ out.op = "Read" => out.r = out.reread

(***************************************************************************)
(* SpecPunctuators: a caller lexes a source text of punctuator runes and   *)
(* the identifier rune `a` token by token, as in SpecLex, and once the     *)
(* lexer has returned its end-of-input token, parses the tokens it         *)
(* returned as an expression (Parser.Parse reads its tokens from the same  *)
(* Lexer.Lex).  The result of the parse is appended to out.                *)
(***************************************************************************)
MaxPunctuatorRunes == 4

PunctuatorAlphabet == {"<", ">", "=", "?", ".", "a"}

InitPunctuators ==
  /\ src \in SeqsUpTo(PunctuatorAlphabet, MaxPunctuatorRunes)
  /\ mode = ExpressionMode
  /\ p = NewLexer(src)
  /\ out = <<>>
  /\ pc = "lexing"

LexedTokens == [i \in 1..(Len(out) - 1) |-> out[i].t]

DoParseLexed ==
  /\ pc = "done"
  /\ out' = Append(out, [t |-> TokenNone, from |-> p.at, to |-> p.at,
                         parse |-> Call("Parse", <<NewParser(LexedTokens),
                                                   mode>>)])
  /\ pc' = "parsed"
  /\ UNCHANGED <<src, mode, p>>

NextPunctuators == DoLex \/ DoParseLexed

SpecPunctuators == InitPunctuators /\ [][NextPunctuators]_vars

\* the punctuators spelled with the runes of the inputs, each with the
\* token kind of its own
Punctuators ==
  {[text |-> <<"<">>, kind |-> "<"], [text |-> <<"<", "=">>, kind |-> "<="],
   [text |-> <<"<", "<">>, kind |-> "<<"],
   [text |-> <<"<", "<", "=">>, kind |-> "<<="],
   [text |-> <<">">>, kind |-> ">"], [text |-> <<">", "=">>, kind |-> ">="],
   [text |-> <<">", ">">>, kind |-> ">>"],
   [text |-> <<">", ">", "=">>, kind |-> ">>="],
   [text |-> <<">", ">", ">">>, kind |-> ">>>"],
   [text |-> <<">", ">", ">", "=">>, kind |-> ">>>="],
   [text |-> <<"=">>, kind |-> "="], [text |-> <<"=", "=">>, kind |-> "=="],
   [text |-> <<"=", "=", "=">>, kind |-> "==="],
   [text |-> <<"=", ">">>, kind |-> "=>"],
   [text |-> <<"?">>, kind |-> "?"], [text |-> <<"?", "?">>, kind |-> "??"],
   [text |-> <<"?", "?", "=">>, kind |-> "??="],
   [text |-> <<"?", ".">>, kind |-> "?."],
   [text |-> <<".">>, kind |-> "."],
   [text |-> <<".", ".", ".">>, kind |-> "..."]}

\* the runes a returned token was read from
Spelling(i) == SubSeq(src, out[i].from + 1, out[i].to)

\* the punctuators spelled at the runes that follow position at
SpelledAt(at) ==
  {u \in Punctuators :
     /\ at + Len(u.text) <= Len(src)
     /\ SubSeq(src, at + 1, at + Len(u.text)) = u.text}

LongestAt(at) ==
  CHOOSE u \in SpelledAt(at) : \A v \in SpelledAt(at) : Len(v.text) <= Len(u.text)

OptionalExample == <<"a", "?", ".", "a">>

OptionalMember ==
  [type |-> "MemberExpression", Object |-> Identifier(<<"a">>),
   Computed |-> FALSE, Property |-> Identifier(<<"a">>), Optional |-> TRUE]

\* C20: every token Lex returns at a punctuator is the longest punctuator
\* spelled there, with that punctuator's own kind; a token of a punctuator
\* kind is returned for no other spelling, so the unsigned-right-shift
\* kinds are returned for `>>>` and `>>>=` only; `?.` gives the single
\* optional-chain token, and `a?.a` parses as an optional member access
C20_PunctuatorKinds ==
  /\ \A i \in 1..Len(out) :
       /\ (out[i].t.type # "none" /\ SpelledAt(out[i].from) # {})
            => /\ out[i].t.type = LongestAt(out[i].from).kind
               /\ Spelling(i) = LongestAt(out[i].from).text
       /\ \A u \in Punctuators :
            out[i].t.type = u.kind => Spelling(i) = u.text
  /\ (pc = "parsed" /\ src = OptionalExample)
       => /\ Returned(out[Len(out)].parse)
          /\ out[Len(out)].parse.n = OptionalMember

\* the source text opens with `/*`
OpensComment == Len(src) >= 2 /\ src[1] = "/" /\ src[2] = "*"

\* the positions of the `*` of a `*/` that follows the opening `/*`
CommentEnds == {i \in 3..(Len(src) - 1) : src[i] = "*" /\ src[i + 1] = "/"}

CommentEnd == CHOOSE i \in CommentEnds : \A j \in CommentEnds : i <= j

\* Lex on the runes right after the first `*/`
LexAfterComment ==
  LexCall("LexRunes", <<NewLexer(SubSeq(src, CommentEnd + 2, Len(src)))>>)

\* C21: a multi-line comment that opens the source text ends at the first
\* `*/` that follows its `/*`, also when another `*` stands right before
\* that `*/`, and the first Lex returns the token that starts right after
\* it; with no `*/` before the end of the input the first Lex raises a
\* syntax error
C21_MultiLineComment ==
  OpensComment =>
    /\ (CommentEnds = {} /\ pc # "lexing") => (pc = "panicked" /\ out = <<>>)
    /\ (CommentEnds # {} /\ (Len(out) >= 1 \/ pc = "panicked")) =>
         IF LexAfterComment.l.err # "none"
           THEN pc = "panicked" /\ out = <<>>
           ELSE /\ Len(out) >= 1
                /\ out[1].t.type = LexAfterComment.t.type
                /\ out[1].t.lit = LexAfterComment.t.lit
                /\ out[1].to = CommentEnd + 1 + LexAfterComment.l.at

\* ast.estreeBinaryOpMap over the operators of the inputs
estreeBinaryOpMap ==
  [op \in {"BinaryExponentOp", "BinaryMultOp", "BinaryAddOp", "BinaryLShiftOp",
           "BinaryLessThanOp", "BinaryEqualOp", "BinaryBitAndOp",
           "BinaryBitXorOp", "BinaryBitOrOp", "BinaryLogicalAndOp",
           "BinaryLogicalOrOp"} |->
    CASE op = "BinaryExponentOp" -> "**"
      [] op = "BinaryMultOp" -> "*"
      [] op = "BinaryAddOp" -> "+"
      [] op = "BinaryLShiftOp" -> "<<"
      [] op = "BinaryLessThanOp" -> "<"
      [] op = "BinaryEqualOp" -> "=="
      [] op = "BinaryBitAndOp" -> "&"
      [] op = "BinaryBitXorOp" -> "^"
      [] op = "BinaryBitOrOp" -> "|"
      [] op = "BinaryLogicalAndOp" -> "&&"
      [] op = "BinaryLogicalOrOp" -> "||"]

\* the ESTree operators of the binary expressions of a tree, left to right
RECURSIVE BinaryOperators(_)
BinaryOperators(n) ==
  CASE n.type = "BinaryExpression" ->
         BinaryOperators(n.Left) \o <<estreeBinaryOpMap[n.Operator]>>
           \o BinaryOperators(n.Right)
    [] n.type = "AssignmentExpression" ->
         BinaryOperators(n.Left) \o BinaryOperators(n.Right)
    [] n.type = "ConditionalExpression" ->
         BinaryOperators(n.Test) \o BinaryOperators(n.Consequent)
           \o BinaryOperators(n.Alternate)
    [] OTHER -> <<>>

\* the binary operator tokens of the source text, left to right
BinaryTokens ==
  LET isBinary(t) == t.type \in DOMAIN binaryOps
      ops == SelectSeq(src, isBinary)
  IN [i \in 1..Len(ops) |-> ops[i].type]

\* C22: each binary operator token of an expression yields a binary
\* expression carrying that same operator: read left to right, the ESTree
\* operators of the binary expressions of the returned tree are the binary
\* operator tokens of the source text; `|` gives "|", not the "^" of `^`
C22_BinaryOperatorOfToken ==
  Returned(out["operators"]) => BinaryOperators(out["operators"].n) = BinaryTokens

(***************************************************************************)
(* SpecContext: the productions that open a scope, each entered in any     *)
(* parse context.  src is the body of the scope; it is parsed as the block *)
(* `{ src }` by parseBlock, and as the method shorthand `{ m() { src } }`  *)
(* and the function expression `function () { src }` by parseExpression.   *)
(* p is the parser at the entry of the production, out the result of each. *)
(***************************************************************************)
MaxScopeBody == 4

ScopeAlphabet == {S("use strict"), P(";"), I("a"), P("{"), P("}")}

Contexts == [strictMode : BOOLEAN, async : BOOLEAN, generator : BOOLEAN]

ScopeForms == {"block", "method", "function"}

InitContext ==
  /\ src \in SeqsUpTo(ScopeAlphabet, MaxScopeBody)
  /\ mode = "none"
  /\ p \in {[NewParser(src) EXCEPT !.ctx = c] : c \in Contexts}
  /\ out = [f \in ScopeForms |-> Pending]
  /\ pc = "ready"

\* the production has run to its end or panicked: r is its result
Produced(f, r) ==
  /\ out[f].outcome = "pending"
  /\ out' = [out EXCEPT ![f] = [outcome |-> IF r.p.err = "none" THEN "return"
                                            ELSE r.p.err,
                                n |-> r.n, err |-> "nil", p |-> r.p]]
  /\ pc' = "parsed"
  /\ UNCHANGED <<src, mode, p>>

DoParseBlock ==
  Produced("block",
           Call("parseBlock", <<[p EXCEPT !.toks = Wrap(<<P("{")>>, src, <<P("}")>>)]>>))

DoParseMethod ==
  Produced("method",
           Call("parseExpression",
                <<[p EXCEPT !.toks = Wrap(<<P("{"), I("m"), P("("), P(")"), P("{")>>,
                                          src, <<P("}"), P("}")>>)],
                  exprOrderAssign, {}>>))

DoParseFunctionExpression ==
  Produced("function",
           Call("parseExpression",
                <<[p EXCEPT !.toks = Wrap(<<K("function"), P("("), P(")"), P("{")>>,
                                          src, <<P("}")>>)],
                  exprOrderAssign, {}>>))

NextContext == DoParseBlock \/ DoParseMethod \/ DoParseFunctionExpression

SpecContext == InitContext /\ [][NextContext]_vars

\* C23: when a block, a method shorthand or a function expression returns,
\* the parse context is the context at its entry: no flag set inside the
\* scope, as by a "use strict" directive, is still set after it
C23_ContextRestored ==
  \A f \in ScopeForms : Returned(out[f]) => out[f].p.ctx = p.ctx

(***************************************************************************)
(* SpecRegexParse: Parse in each mode over token sequences that hold a `/` *)
(* or `/=` token, at the start of a statement and after the tokens behind  *)
(* which the statement dispatcher and the expression parser look ahead.    *)
(***************************************************************************)
MaxRegexTokens == 4

RegexTokenAlphabet ==
  {P("/"), P("/="), I("a"), P("("), P(")"), P("{"), P("}"), P(":"), P(";"),
   P("="), P("["), K("async"), K("let")}

RegexParseInputs ==
  {s \in SeqsUpTo(RegexTokenAlphabet, MaxRegexTokens) :
     \E i \in 1..Len(s) : s[i].type \in {"/", "/="}}

InitRegexParse ==
  /\ src \in RegexParseInputs
  /\ mode = "none"
  /\ p = NewParser(src)
  /\ out = [m \in ParseModes |-> Pending]
  /\ pc = "ready"

NextRegexParse == DoParseScript \/ DoParseModule \/ DoParseExpression

SpecRegexParse == InitRegexParse /\ [][NextRegexParse]_vars

\* C24: whenever parseExpression calls ReScan the lookahead queue is empty
\* and the lexer's last token is the `/` or `/=` token it returned last,
\* whatever lookahead the statement dispatcher performed before: ReScan
\* never panics
C24_ReScanQueueEmpty ==
  \A m \in ParseModes :
    out[m].outcome # "pending" =>
      \A i \in 1..Len(out[m].p.relexed) :
        LET c == out[m].p.relexed[i]
        IN /\ c.queue = 0
           /\ c.lastToken.type \in {"/", "/="}
           /\ c.pos >= 1

\* a statement that starts with a regular expression, after a label the
\* dispatcher found with PeekAt(1), has been parsed
C24_Witness ==
  /\ src = <<I("a"), P(":"), P("/"), P("/")>>
  /\ Returned(out[ScriptMode])
  /\ Len(out[ScriptMode].p.relexed) = 1

\* the lexer position right before the front token of the queue was lexed:
\* the tokens before it are the tokens Scan has returned
FrontLocation == IF Len(out.scans) <= Len(src) THEN Len(out.scans) ELSE Len(src)

\* C25: while the lookahead queue holds a token, Location() is the lexer
\* position recorded right before the front token was lexed, also after
\* PeekAt(1) filled the queue with two tokens and Scan removed the first;
\* with an empty queue it is the lexer's position; the token queue and the
\* location queue have the same length
C25_LocationOfFront ==
  /\ Len(p.loc) = Len(p.last)
  /\ Len(p.last) > 0 => Location(p) = FrontLocation
  /\ Len(p.last) = 0 => Location(p) = LexerLocation(p)

(***************************************************************************)
(* SpecKeywords: keywordToIdentifier on one token of any kind, in any      *)
(* parse context, with either value of force.  src is the token, p.ctx the *)
(* context; out records the call.                                          *)
(***************************************************************************)
TokenKinds ==
  [type : reservedWords, nl : BOOLEAN]
    \cup [type : {"ident", "number", "string", ";", "(", "/", "=>"}, nl : BOOLEAN]

KindToken(k) ==
  Token(k.type,
        IF k.type \in reservedWords THEN <<k.type>>
        ELSE IF k.type \in {"ident", "number", "string"} THEN <<"a">> ELSE <<>>,
        k.nl)

InitKeywords ==
  /\ src \in {<<KindToken(k)>> : k \in TokenKinds}
  /\ mode = "none"
  /\ p \in {[NewParser(src) EXCEPT !.ctx = c] : c \in Contexts}
  /\ out = [force |-> FALSE, t |-> TokenNone, before |-> p]
  /\ pc = "ready"

DoKeywordToIdentifier ==
  /\ pc = "ready"
  /\ \E force \in BOOLEAN :
       out' = [force |-> force, t |-> keywordToIdentifier(p.ctx, src[1], force),
               before |-> p]
  /\ pc' = "done"
  /\ UNCHANGED <<src, mode, p>>

NextKeywords == DoKeywordToIdentifier

SpecKeywords == InitKeywords /\ [][NextKeywords]_vars

\* the reservation class of a keyword is active in a context
ReservationActive(ctx, kind) ==
  \/ kind \in reservedAlways
  \/ kind \in reservedAsync /\ ctx.async
  \/ kind \in reservedGenerator /\ ctx.generator
  \/ kind \in reservedStrict /\ ctx.strictMode

\* C26: keywordToIdentifier returns a token that is no keyword unchanged; a
\* keyword becomes an identifier token with the same literal exactly when
\* force is set or its reservation class is not active in the context, and
\* is returned unchanged otherwise; the context is left as it was
C26_KeywordToIdentifier ==
  pc = "done" =>
    /\ src[1].type \notin reservedWords => out.t = src[1]
    /\ src[1].type \in reservedWords =>
         IF out.force \/ ~ReservationActive(out.before.ctx, src[1].type)
           THEN out.t.type = "ident" /\ out.t.lit = src[1].lit
           ELSE out.t = src[1]
    /\ p.ctx = out.before.ctx

\* `yield` in a generator stays a keyword without force
C26_Witness ==
  /\ pc = "done"
  /\ src[1].type = "yield"
  /\ out.before.ctx.generator
  /\ ~out.force
  /\ out.t.type = "yield"

(***************************************************************************)
(* SpecForHeads: the statement `for ( HEAD ) c ;` parsed as a statement,   *)
(* a script and a module, for every HEAD of up to MaxHead tokens out of    *)
(* identifiers, an identifier on a new line, `;` and `}`.                  *)
(***************************************************************************)
MaxHead == 5

HeadAlphabet == {I("a"), NL(I("b")), P(";"), P("}")}

InitForHeads ==
  /\ src \in {Wrap(<<K("for"), P("(")>>, h, <<P(")"), I("c"), P(";")>>) :
                h \in SeqsUpTo(HeadAlphabet, MaxHead)}
  /\ mode = "none"
  /\ p = NewParser(src)
  /\ out = [f \in ItemForms |-> Pending]
  /\ pc = "ready"

NextForHeads == DoParseScript \/ DoParseModule \/ DoParseStatement

SpecForHeads == InitForHeads /\ [][NextForHeads]_vars

\* the tokens between `for (` and `) c ;`
ForHead == SubSeq(src, 3, Len(src) - 3)

\* the positions of the `;` tokens of the head
Separators == {i \in 1..Len(ForHead) : ForHead[i].type = ";"}

\* init ; test ; update with each part one identifier or missing
ClassicalHead ==
  /\ Cardinality(Separators) = 2
  /\ \A i \in 1..Len(ForHead) : ForHead[i].type \in {";", "ident"}
  /\ \A i \in 1..(Len(ForHead) - 1) : ForHead[i].type = ";" \/ ForHead[i + 1].type = ";"

\* C27: a for statement is accepted only when init, test and update are
\* separated by two literal `;` tokens; a head with a separator left out
\* before a token on a new line or before `}` is a syntax error
C27_ForHeadSeparators ==
  \A f \in ItemForms : Returned(out[f]) => ClassicalHead

(***************************************************************************)
(* SpecLists: the array literal `[ BODY ]` and the call `f ( BODY )`       *)
(* parsed as an expression, for every BODY of up to MaxListBody tokens out *)
(* of two identifiers and `,`.                                             *)
(***************************************************************************)
MaxListBody == 5

ListAlphabet == {I("a"), I("b"), P(",")}

InitLists ==
  /\ src \in {Wrap(<<P("[")>>, b, <<P("]")>>) : b \in SeqsUpTo(ListAlphabet, MaxListBody)}
           \cup {Wrap(<<I("f"), P("(")>>, b, <<P(")")>>) :
                   b \in SeqsUpTo(ListAlphabet, MaxListBody)}
  /\ mode = "none"
  /\ p = NewParser(src)
  /\ out = [m \in ParseModes |-> Pending]
  /\ pc = "ready"

NextLists == DoParseExpression

SpecLists == InitLists /\ [][NextLists]_vars

\* the tokens between the brackets
ListBody ==
  IF src[1].type = "[" THEN SubSeq(src, 2, Len(src) - 1)
  ELSE SubSeq(src, 3, Len(src) - 1)

\* two expressions with no `,` between them
Unseparated ==
  \E i \in 1..(Len(ListBody) - 1) :
    ListBody[i].type = "ident" /\ ListBody[i + 1].type = "ident"

WrittenExpressions == Cardinality({i \in 1..Len(ListBody) : ListBody[i].type = "ident"})

\* a `,` with no expression before it stands for a hole
Elisions ==
  Cardinality({i \in 1..Len(ListBody) :
                 /\ ListBody[i].type = ","
                 /\ (i = 1 \/ ListBody[i - 1].type = ",")})

\* C28: an array literal or an argument list with two expressions not
\* separated by `,` is a syntax error, and a returned array literal has
\* one element per written expression and per elision
C28_CommaSeparated ==
  Returned(out[ExpressionMode]) =>
    /\ ~Unseparated
    /\ out[ExpressionMode].n.type = "ArrayExpression" =>
         Len(out[ExpressionMode].n.Elements) = WrittenExpressions + Elisions

(***************************************************************************)
(* SpecSlots: the statements that hold a statement, each with every        *)
(* SlotFiller at the place of the statement it holds, parsed as a          *)
(* statement, a script and a module.                                       *)
(***************************************************************************)
\* the tokens before and after the statement held
SlotFrames ==
  {<<<<K("if"), P("("), I("a"), P(")")>>, <<>>>>,
   <<<<K("if"), P("("), I("a"), P(")"), P(";"), K("else")>>, <<>>>>,
   <<<<K("while"), P("("), I("a"), P(")")>>, <<>>>>,
   <<<<K("do")>>, <<K("while"), P("("), I("a"), P(")"), P(";")>>>>,
   <<<<K("for"), P("("), P(";"), P(";"), P(")")>>, <<>>>>,
   <<<<K("for"), P("("), I("a"), K("in"), I("b"), P(")")>>, <<>>>>,
   <<<<K("for"), P("("), I("a"), K("of"), I("b"), P(")")>>, <<>>>>,
   <<<<I("l"), P(":")>>, <<>>>>,
   <<<<K("switch"), P("("), I("a"), P(")"), P("{"), K("case"), I("b"), P(":")>>,
     <<P("}")>>>>,
   <<<<K("switch"), P("("), I("a"), P(")"), P("{"), K("default"), P(":")>>,
     <<P("}")>>>>}

\* tokens that start a statement
StatementFillers == {<<P(";")>>, <<I("a"), P(";")>>, <<P("{"), P("}")>>}

\* tokens that start no statement
OtherFillers ==
  {<<K("function"), I("f"), P("("), P(")"), P("{"), P("}")>>,
   <<K("const"), I("a"), P("="), I("b"), P(";")>>,
   <<K("class"), I("A"), P("{"), P("}")>>,
   <<P(")")>>}

SlotFillers == StatementFillers \cup OtherFillers

InitSlots ==
  /\ src \in {Wrap(f[1], s, f[2]) : f \in SlotFrames, s \in SlotFillers}
  /\ mode = "none"
  /\ p = NewParser(src)
  /\ out = [f \in ItemForms |-> Pending]
  /\ pc = "ready"

NextSlots == DoParseScript \/ DoParseModule \/ DoParseStatement

SpecSlots == InitSlots /\ [][NextSlots]_vars

\* the source text has a filler that starts no statement
NoStatementWritten ==
  \E f \in SlotFrames, s \in OtherFillers : src = Wrap(f[1], s, f[2])

ElseWritten == \E i \in 1..Len(src) : src[i].type = "else"

\* the statement-valued slots of a node
StatementSlots(n) ==
  CASE n.type = "IfStatement" ->
         IF ElseWritten THEN <<n.Consequent, n.Alternate>> ELSE <<n.Consequent>>
    [] n.type \in {"WhileStatement", "DoWhileStatement", "ForStatement",
                   "ForInStatement", "ForOfStatement", "LabeledStatement"} ->
         <<n.Body>>
    [] n.type = "SwitchCase" -> n.Consequent
    [] OTHER -> <<>>

\* C29: in a returned tree every statement-valued slot holds a statement;
\* where the token at such a place starts no statement, the parse ends in
\* a syntax error
C29_StatementSlotsFilled ==
  \A f \in ItemForms :
    /\ Returned(out[f]) =>
         \A i \in 1..Len(Nodes(out[f].n)) :
           \A j \in 1..Len(StatementSlots(Nodes(out[f].n)[i])) :
             StatementSlots(Nodes(out[f].n)[i])[j].type # "nil"
    /\ (out[f].outcome # "pending" /\ NoStatementWritten) => out[f].err = "syntax"

(***************************************************************************)
(* SpecLabels: `break` and `continue` followed by a name or a keyword,     *)
(* on the same line or on the next, then `;`.                              *)
(***************************************************************************)
LabelTokens ==
  {I("a"), K("async"), K("of"), K("get"), K("set"), K("from"), K("yield"),
   K("await"), K("let"), K("this")}

LabelForms == ItemForms \cup {"demoted"}

InitLabels ==
  /\ src \in {<<k, t, P(";")>> : k \in {K("break"), K("continue")},
                                 t \in LabelTokens \cup {NL(x) : x \in LabelTokens}}
  /\ mode = "none"
  /\ p = NewParser(src)
  /\ out = [f \in LabelForms |-> Pending]
  /\ pc = "ready"

\* keywordToIdentifier as parseBreakStatement and parseContinueStatement
\* call it on the token after the keyword
DoDemote ==
  /\ out["demoted"].outcome = "pending"
  /\ out' = [out EXCEPT !["demoted"] =
               [outcome |-> "return",
                n |-> keywordToIdentifier(NewParser(src).ctx, src[2], FALSE),
                err |-> "nil", p |-> NewParser(src)]]
  /\ pc' = "parsed"
  /\ UNCHANGED <<src, mode, p>>

NextLabels == DoParseScript \/ DoParseModule \/ DoParseStatement \/ DoDemote

SpecLabels == InitLabels /\ [][NextLabels]_vars

\* the jump statement a parse begins with
FirstJump(r) == Nodes(r.n)[IF r.n.type \in {"BreakStatement", "ContinueStatement"}
                             THEN 1 ELSE 2]

\* C30: the token keywordToIdentifier returns has the line-terminator flag
\* of the token it was given, and `break` or `continue` followed by a line
\* terminator takes no label, whatever the token after it
C30_DemotedKeepsNewLine ==
  /\ out["demoted"].outcome = "return" => out["demoted"].n.nl = src[2].nl
  /\ \A f \in ItemForms :
       (Returned(out[f]) /\ src[2].nl) => FirstJump(out[f]).Label = <<>>

=============================================================================
